---- MODULE Spec2Model ----
(***************************************************************************)
(* Model of the ollama-connector gateway.                                  *)
(*                                                                         *)
(*   Spec      the node registry, liveness sweeper and job dispatcher of   *)
(*             src/server/app.py                                           *)
(*   SpecRate  the sliding-window rate limiter of                          *)
(*             src/backend/app/services/rate_limiter.py                    *)
(*   SpecChat  the chat endpoint of src/backend/app/api/v1/chat.py with    *)
(*             the router, the node API and the rate limiter behind it     *)
(*   SpecPure  the pure functions of the backend, applied to enumerated    *)
(*             arguments                                                   *)
(*                                                                         *)
(* Time is counted in seconds and advances in steps of TickSeconds; a      *)
(* node's last_seen is kept as its age, now - last_seen.                   *)
(***************************************************************************)
EXTENDS Integers, Sequences, FiniteSets, Bags, TLC

VARIABLES
    registry,     \* app.state.registry: the dict, as a sequence in insertion order
    sweep_in,     \* seconds left of the sweeper's asyncio.sleep
    tasks,        \* the create_job handlers in progress: a bag of task records
    abandoned,    \* attempts cancelled in flight (mark_job_start without mark_job_end)
    seen,         \* history: the events that have happened so far
    streak,       \* history: per node, the dispatch calls that have failed in
                  \* a row since its last heartbeat or successful attempt
    now,          \* the backend's time.time(), in seconds
    zsets,        \* Redis: the sorted set under each rate:<connector>:<window> key
    expiry,       \* Redis: the time each of these keys expires at, 0 for no TTL
    limits,       \* the connector's rate_limit_per_minute and rate_limit_per_hour
    calls,        \* check_rate_limit calls between their two pipelines: a bag
    started,      \* check_rate_limit calls made so far
    returned,     \* the value the last finished check_rate_limit call returned
    accepted,     \* history: the timestamps of the calls that returned allowed
    interleaved,  \* history: a call began while another was between its pipelines
    connector,    \* the connector the chat requests authenticate as
    openrouter,   \* SmartRouter.openrouter is not None
    nodes,        \* Redis: the node:<node_id> hashes
    chats,        \* the chat_completions handlers in progress: a bag
    chat_started, \* chat requests received so far
    pure_call,    \* SpecPure: the function applied and its arguments
    pure_out,     \* SpecPure: its value, <<>> before the call
    beats         \* SpecBeat: history, the heartbeat requests handled so far

server_vars == <<registry, sweep_in, tasks, abandoned, seen, streak>>
rate_vars ==
    <<now, zsets, expiry, limits, calls, started, returned, accepted, interleaved>>
chat_vars == <<connector, openrouter, nodes, chats, chat_started>>
pure_vars == <<pure_call, pure_out, beats>>
vars == <<server_vars, rate_vars, chat_vars, pure_vars>>

None == "None"

\* ------------------------------------------------------------------ bounds

NumTasks == 2
MaxCancels == 1

NodeIds == {"n1"}

\* ------------------------------------------------------- program constants

HEARTBEAT_TTL_SECONDS == 90
HEARTBEAT_OFFLINE_SECONDS == 180
NODE_MAX_FAILURES == 3

Max(a, b) == IF a >= b THEN a ELSE b
Min(a, b) == IF a <= b THEN a ELSE b

\* asyncio.sleep(HEARTBEAT_TTL_SECONDS // 2 or 30)
SweepSleep ==
    IF HEARTBEAT_TTL_SECONDS \div 2 = 0 THEN 30 ELSE HEARTBEAT_TTL_SECONDS \div 2

\* The clock advances by one sweeper sleep per Tick; the sweeper's pass falls
\* anywhere among the events of that instant.
TickSeconds == SweepSleep

\* Ages above the eviction threshold all behave alike.
AgeCap == HEARTBEAT_OFFLINE_SECONDS + TickSeconds

\* ------------------------------------------------------------ the registry

Has(reg, node_id) == \E i \in 1..Len(reg) : reg[i].node_id = node_id

Get(reg, node_id) ==
    reg[CHOOSE i \in 1..Len(reg) : reg[i].node_id = node_id]

\* dict[node_id] = entry: in place for a known key, appended for a new one
Put(reg, entry) ==
    IF Has(reg, entry.node_id)
    THEN [i \in 1..Len(reg) |->
             IF reg[i].node_id = entry.node_id THEN entry ELSE reg[i]]
    ELSE Append(reg, entry)

Pop(reg, node_id) == SelectSeq(reg, LAMBDA e : e.node_id # node_id)

\* Heartbeats as they arrive: the payload and the transport peer address.
\* cpu is the load in percent, as <<value>>, or <<>> when no load (or no cpu
\* value) is sent.  HeartbeatPayload (schemas.py, lines 22-50) has no
\* cloudflare_url field: a tunnel URL sent by a node is dropped on parsing.
Heartbeats ==
    { [ipv4 |-> "r4", ipv6 |-> None,
       models |-> {"llama3"}, cpu |-> <<>>, peer |-> "p4"],
      [ipv4 |-> "r4", ipv6 |-> None,
       models |-> {"llama3", "mistral"}, cpu |-> <<50>>, peer |-> "p6"],
      [ipv4 |-> None, ipv6 |-> None,
       models |-> {"llama3"}, cpu |-> <<>>, peer |-> None] }

IsIPv6(ip) == ip = "p6"

\* register_node, lines 389-412: the connection address replaces the
\* self-reported address of its family.
NormalizePayload(hb) ==
    IF hb.peer = None THEN hb
    ELSE IF ~IsIPv6(hb.peer) THEN [hb EXCEPT !.ipv4 = hb.peer]
    ELSE [hb EXCEPT !.ipv6 = hb.peer]

\* The record of a node.  cloudflare_url is what getattr(record,
\* 'cloudflare_url', None) gives (app.py, line 263): the record has no such
\* attribute.
NodeInfo(node_id, p, status) ==
    [node_id |-> node_id, cloudflare_url |-> None, ipv4 |-> p.ipv4,
     ipv6 |-> p.ipv6, models |-> p.models, cpu |-> p.cpu,
     age |-> 0, status |-> status]

NewNodeState(node_id, p) ==
    [record |-> NodeInfo(node_id, p, "online"), node_id |-> node_id,
     active_jobs |-> 0, failure_count |-> 0]

\* Mutant of bump_heartbeat: the heartbeat replaces the whole entry
bump_heartbeat_fresh(entry, p) == NewNodeState(entry.node_id, p)

\* Mutant of bump_heartbeat: a node that the sweeper set offline stays so
bump_heartbeat_stays_offline(entry, p) ==
    [entry EXCEPT !.record = NodeInfo(entry.node_id, p,
                                 IF entry.record.status = "offline"
                                 THEN "offline" ELSE "online"),
                  !.failure_count = 0]

\* Mutant of bump_heartbeat: a heartbeat takes one failure off the count
bump_heartbeat_decay(entry, p) ==
    [entry EXCEPT !.record = NodeInfo(entry.node_id, p, "online"),
                  !.failure_count = Max(@ - 1, 0)]

bump_heartbeat(entry, p) ==
    [entry EXCEPT !.record = NodeInfo(entry.node_id, p, "online"),
                  !.failure_count = 0]

register_node_reg(reg, node_id, hb) ==
    LET p == NormalizePayload(hb) IN
    IF Has(reg, node_id)
    THEN Put(reg, bump_heartbeat(Get(reg, node_id), p))
    ELSE Put(reg, NewNodeState(node_id, p))

mark_job_start(reg, node_id) ==
    IF Has(reg, node_id)
    THEN LET entry == Get(reg, node_id) IN
         Put(reg, [entry EXCEPT !.active_jobs = @ + 1])
    ELSE reg

\* Mutant of mark_job_end: the decrement is not clamped at 0
mark_job_end_unclamped(reg, node_id, success) ==
    IF ~Has(reg, node_id) THEN reg
    ELSE LET entry == Get(reg, node_id)
             dec == [entry EXCEPT !.active_jobs = entry.active_jobs - 1]
             fc == entry.failure_count + 1
         IN IF success
            THEN Put(reg, [dec EXCEPT !.failure_count = 0,
                                      !.record.status = "online"])
            ELSE Put(reg, [dec EXCEPT !.failure_count = fc,
                                      !.record.status =
                                          IF fc >= NODE_MAX_FAILURES
                                          THEN "degraded" ELSE @])

\* Mutant of mark_job_end: active_jobs is decremented on success only
mark_job_end_success_only(reg, node_id, success) ==
    IF ~Has(reg, node_id) THEN reg
    ELSE LET entry == Get(reg, node_id)
             dec == [entry EXCEPT !.active_jobs = Max(entry.active_jobs - 1, 0)]
             fc == entry.failure_count + 1
         IN IF success
            THEN Put(reg, [dec EXCEPT !.failure_count = 0,
                                      !.record.status = "online"])
            ELSE Put(reg, [entry EXCEPT !.failure_count = fc,
                                        !.record.status =
                                            IF fc >= NODE_MAX_FAILURES
                                            THEN "degraded" ELSE @])

\* Mutant of mark_job_end: the node is degraded once the count is above
\* NODE_MAX_FAILURES
mark_job_end_late_degrade(reg, node_id, success) ==
    IF ~Has(reg, node_id) THEN reg
    ELSE LET entry == Get(reg, node_id)
             dec == [entry EXCEPT !.active_jobs = Max(entry.active_jobs - 1, 0)]
             fc == entry.failure_count + 1
         IN IF success
            THEN Put(reg, [dec EXCEPT !.failure_count = 0,
                                      !.record.status = "online"])
            ELSE Put(reg, [dec EXCEPT !.failure_count = fc,
                                      !.record.status =
                                          IF fc > NODE_MAX_FAILURES
                                          THEN "degraded" ELSE @])

\* Mutant of mark_job_end: a success takes one failure off the count, and
\* the node is online again once the count is below NODE_MAX_FAILURES
mark_job_end_forgives_one(reg, node_id, success) ==
    IF ~Has(reg, node_id) THEN reg
    ELSE LET entry == Get(reg, node_id)
             dec == [entry EXCEPT !.active_jobs = Max(entry.active_jobs - 1, 0)]
             fc == entry.failure_count + 1
             less == Max(entry.failure_count - 1, 0)
         IN IF success
            THEN Put(reg, [dec EXCEPT !.failure_count = less,
                                      !.record.status =
                                          IF less < NODE_MAX_FAILURES
                                          THEN "online" ELSE @])
            ELSE Put(reg, [dec EXCEPT !.failure_count = fc,
                                      !.record.status =
                                          IF fc >= NODE_MAX_FAILURES
                                          THEN "degraded" ELSE @])

mark_job_end(reg, node_id, success) ==
    IF ~Has(reg, node_id) THEN reg
    ELSE LET entry == Get(reg, node_id)
             dec == [entry EXCEPT !.active_jobs = Max(entry.active_jobs - 1, 0)]
             fc == entry.failure_count + 1
         IN IF success
            THEN Put(reg, [dec EXCEPT !.failure_count = 0,
                                      !.record.status = "online"])
            ELSE Put(reg, [dec EXCEPT !.failure_count = fc,
                                      !.record.status =
                                          IF fc >= NODE_MAX_FAILURES
                                          THEN "degraded" ELSE @])

\* get_cpu_load: no load, or no cpu value, ranks as 1.0
get_cpu_load(entry) ==
    IF entry.record.cpu = <<>> THEN 100 ELSE entry.record.cpu[1]

SortKey(entry) == <<entry.active_jobs, get_cpu_load(entry), entry.failure_count>>

KeyLess(a, b) ==
    \/ a[1] < b[1]
    \/ a[1] = b[1] /\ a[2] < b[2]
    \/ a[1] = b[1] /\ a[2] = b[2] /\ a[3] < b[3]

\* list.sort(key=...): stable
RECURSIVE InsertSorted(_, _)
InsertSorted(sorted, e) ==
    IF sorted = <<>> THEN <<e>>
    ELSE IF KeyLess(SortKey(e), SortKey(Head(sorted)))
         THEN <<e>> \o sorted
         ELSE <<Head(sorted)>> \o InsertSorted(Tail(sorted), e)

RECURSIVE StableSort(_)
StableSort(s) ==
    IF s = <<>> THEN <<>>
    ELSE InsertSorted(StableSort(SubSeq(s, 1, Len(s) - 1)), s[Len(s)])

IsCandidate(entry, model) ==
    model \in entry.record.models /\ entry.record.status = "online"

choose_node_ids(reg, model) ==
    LET candidates == SelectSeq(reg, LAMBDA e : IsCandidate(e, model))
        sorted == StableSort(candidates)
    IN [i \in 1..Len(sorted) |-> sorted[i].node_id]

\* snapshot_node: a copy of the record, None for an unknown node
\* The dispatcher reads only the addresses of its snapshot.
NoSnapshot == [cloudflare_url |-> None, ipv4 |-> None, ipv6 |-> None]

snapshot_node(reg, node_id) ==
    IF Has(reg, node_id)
    THEN LET r == Get(reg, node_id).record IN
         [cloudflare_url |-> r.cloudflare_url, ipv4 |-> r.ipv4, ipv6 |-> r.ipv6]
    ELSE NoSnapshot

\* Mutant of connection_strategies: ipv6 is tried before ipv4
connection_strategies_v6_first(snapshot) ==
    (IF snapshot.cloudflare_url # None THEN <<"cloudflare">> ELSE <<>>)
    \o (IF snapshot.ipv6 # None THEN <<"ipv6">> ELSE <<>>)
    \o (IF snapshot.ipv4 # None THEN <<"ipv4">> ELSE <<>>)

\* dispatch_to_node, lines 270-288: built afresh from the snapshot
connection_strategies(snapshot) ==
    (IF snapshot.cloudflare_url # None THEN <<"cloudflare">> ELSE <<>>)
    \o (IF snapshot.ipv4 # None THEN <<"ipv4">> ELSE <<>>)
    \o (IF snapshot.ipv6 # None THEN <<"ipv6">> ELSE <<>>)

\* --------------------------------------------------------------- requests

RequestModels == {"llama3", "mistral"}
Outcomes == {"2xx", "non2xx", "exception"}

\* A request slot.  log and charged belong to the dispatch_to_node call in
\* progress: the attempts made so far, and the failures it has added to the
\* node's failure_count.
IdleTask ==
    [pc |-> "idle", cands |-> <<>>, node |-> None, snap |-> NoSnapshot,
     todo |-> <<>>, log |-> <<>>, charged |-> 0, result |-> None]

TaskSet == BagToSet(tasks)

Becomes(old, new) == tasks' = (tasks (-) SetToBag({old})) (+) SetToBag({new})

\* One more dispatch call against the node has ended in NodeDispatchError;
\* the count stops at NODE_MAX_FAILURES
FailedAgain(counts, node_id) ==
    [counts EXCEPT ![node_id] = Min(@ + 1, NODE_MAX_FAILURES)]

\* create_job's loop after a NodeDispatchError: the next candidate, or 503
NextCandidate(task) ==
    IF Len(task.cands) > 1
    THEN [IdleTask EXCEPT !.pc = "dispatch", !.cands = Tail(task.cands)]
    ELSE [IdleTask EXCEPT !.pc = "done", !.result = "503"]

\* create_job, lines 453-468
create_job(task, model) ==
    /\ task.pc = "idle"
    /\ LET candidate_ids == choose_node_ids(registry, model) IN
       Becomes(task, IF candidate_ids = <<>>
                     THEN [IdleTask EXCEPT !.pc = "done", !.result = "503"]
                     ELSE [IdleTask EXCEPT !.pc = "dispatch",
                                           !.cands = candidate_ids])
    /\ UNCHANGED <<registry, sweep_in, abandoned, seen, streak>>

\* dispatch_to_node, lines 254-293
dispatch_to_node(task) ==
    /\ task.pc = "dispatch"
    /\ LET node_id == Head(task.cands)
           node_snapshot == snapshot_node(registry, node_id)
           strategies == IF node_snapshot = NoSnapshot THEN <<>>
                         ELSE connection_strategies(node_snapshot)
       IN /\ Becomes(task, IF strategies = <<>>
                        THEN NextCandidate(task)
                        ELSE [task EXCEPT !.pc = "attempt",
                                          !.node = node_id,
                                          !.snap = node_snapshot,
                                          !.todo = strategies])
          /\ streak' = IF Has(registry, node_id) /\ strategies = <<>>
                       THEN FailedAgain(streak, node_id) ELSE streak
    /\ UNCHANGED <<registry, sweep_in, abandoned, seen>>

\* dispatch_to_node, lines 296-308: mark_job_start, then the POST is sent
attempt_start(task) ==
    /\ task.pc = "attempt"
    /\ registry' = mark_job_start(registry, task.node)
    /\ Becomes(task, [task EXCEPT !.pc = "posting"])
    /\ UNCHANGED <<sweep_in, abandoned, seen, streak>>

\* Mutant of attempt_end: an attempt that raised is made once more with the
\* same address before the next one is tried
attempt_end_retry(task, outcome) ==
    /\ task.pc = "posting"
    /\ LET success == outcome = "2xx"
           again == /\ outcome = "exception"
                    /\ \A i \in DOMAIN task.log : task.log[i].via # Head(task.todo)
           logged == [task EXCEPT
                         !.log = Append(@, [via |-> Head(task.todo),
                                            ok |-> success]),
                         !.todo = IF again THEN @ ELSE Tail(@)]
       IN /\ registry' = mark_job_end(registry, task.node, success)
          /\ Becomes(task, IF success
                           THEN [logged EXCEPT !.pc = "done", !.result = "200"]
                           ELSE IF logged.todo # <<>>
                           THEN [logged EXCEPT !.pc = "attempt"]
                           ELSE [logged EXCEPT !.pc = "failed"])
    /\ UNCHANGED <<sweep_in, abandoned, seen, streak>>

\* dispatch_to_node, lines 311-345: the POST returns or raises
attempt_end(task, outcome) ==
    /\ task.pc = "posting"
    /\ LET success == outcome = "2xx"
           charge == IF ~success /\ Has(registry, task.node) THEN 1 ELSE 0
           logged == [task EXCEPT
                         !.log = Append(@, [via |-> Head(task.todo),
                                            ok |-> success]),
                         !.charged = @ + charge,
                         !.todo = Tail(@)]
       IN /\ registry' = mark_job_end(registry, task.node, success)
          /\ Becomes(task, IF success
                           THEN [logged EXCEPT !.pc = "done", !.result = "200"]
                           ELSE IF logged.todo # <<>>
                           THEN [logged EXCEPT !.pc = "attempt"]
                           ELSE [logged EXCEPT !.pc = "failed"])
    /\ seen' = seen
                \cup (IF Has(registry, task.node)
                         /\ Get(registry, task.node).active_jobs = 0
                      THEN {"end_at_zero"} ELSE {})
                \cup (IF Has(registry, task.node) /\ outcome = "2xx"
                         /\ Get(registry, task.node).record.status = "degraded"
                      THEN {"success_on_degraded"} ELSE {})
    /\ streak' = IF outcome = "2xx" THEN [streak EXCEPT ![task.node] = 0]
                 ELSE IF Tail(task.todo) = <<>>
                 THEN FailedAgain(streak, task.node)
                 ELSE streak
    /\ UNCHANGED <<sweep_in, abandoned>>

\* dispatch_to_node line 354 and create_job lines 478-484: every strategy
\* failed, NodeDispatchError, on to the next candidate
node_failed(task) ==
    /\ task.pc = "failed"
    /\ Becomes(task, NextCandidate(task))
    /\ UNCHANGED <<registry, sweep_in, abandoned, seen, streak>>

\* Mutant of cancel_request: the cancellation is handled like a failed POST
\* and the loop goes on
cancel_request_caught(task) ==
    /\ task.pc = "posting"
    /\ abandoned < MaxCancels
    /\ abandoned' = abandoned + 1
    /\ Becomes(task, IF Tail(task.todo) # <<>>
                     THEN [task EXCEPT !.pc = "attempt", !.todo = Tail(@)]
                     ELSE [task EXCEPT !.pc = "failed", !.todo = Tail(@)])
    /\ UNCHANGED <<registry, sweep_in, seen, streak>>

\* The request is cancelled while its POST is pending: CancelledError is no
\* Exception, so neither handler of lines 312 and 346 runs.
cancel_request(task) ==
    /\ task.pc = "posting"
    /\ abandoned < MaxCancels
    /\ abandoned' = abandoned + 1
    /\ Becomes(task, [task EXCEPT !.pc = "cancelled"])
    /\ UNCHANGED <<registry, sweep_in, seen, streak>>

\* The response (or error) is sent; the slot takes the next request.
respond(task) ==
    /\ task.pc \in {"done", "cancelled"}
    /\ Becomes(task, IdleTask)
    /\ UNCHANGED <<registry, sweep_in, abandoned, seen, streak>>

\* register_node, lines 389-426
register_node(node_id, hb) ==
    /\ registry' = register_node_reg(registry, node_id, hb)
    /\ streak' = [streak EXCEPT ![node_id] = 0]
    /\ UNCHANGED <<sweep_in, tasks, abandoned, seen>>

\* Mutant of sweep_pass: both thresholds are reached at equality
sweep_pass_at_threshold(reg) ==
    LET kept == SelectSeq(reg, LAMBDA e :
                    e.record.age < HEARTBEAT_OFFLINE_SECONDS)
    IN [i \in 1..Len(kept) |->
           IF kept[i].record.age >= HEARTBEAT_TTL_SECONDS
           THEN [kept[i] EXCEPT !.record.status = "offline"]
           ELSE kept[i]]

\* Mutant of sweep_pass: a node set offline starts over with no failures
sweep_pass_reset(reg) ==
    LET kept == SelectSeq(reg, LAMBDA e :
                    ~(e.record.age > HEARTBEAT_OFFLINE_SECONDS))
    IN [i \in 1..Len(kept) |->
           IF kept[i].record.age > HEARTBEAT_TTL_SECONDS
              /\ kept[i].record.status # "offline"
           THEN [kept[i] EXCEPT !.record.status = "offline",
                                !.failure_count = 0]
           ELSE kept[i]]

\* One pass of _cleanup_loop, lines 363-372
RECURSIVE sweep_pass(_)
sweep_pass(reg) ==
    IF reg = <<>> THEN <<>>
    ELSE LET entry == Head(reg)
             delta == entry.record.age
         IN IF delta > HEARTBEAT_OFFLINE_SECONDS
            THEN sweep_pass(Tail(reg))
            ELSE IF delta > HEARTBEAT_TTL_SECONDS
                    /\ entry.record.status # "offline"
            THEN <<[entry EXCEPT !.record.status = "offline"]>>
                 \o sweep_pass(Tail(reg))
            ELSE <<entry>> \o sweep_pass(Tail(reg))

cleanup_loop ==
    /\ sweep_in = 0
    /\ registry' = sweep_pass(registry)
    /\ sweep_in' = SweepSleep
    /\ UNCHANGED <<tasks, abandoned, seen, streak>>

\* The clock advances; the sweeper wakes as soon as its sleep is over, and a
\* handler takes no time between two awaits of network I/O.
Tick ==
    /\ sweep_in > 0
    /\ \A task \in TaskSet : task.pc \in {"idle", "posting"}
    /\ sweep_in' = sweep_in - TickSeconds
    /\ registry' = [i \in 1..Len(registry) |->
                       [registry[i] EXCEPT !.record.age =
                           Min(@ + TickSeconds, AgeCap)]]
    /\ UNCHANGED <<tasks, abandoned, seen, streak>>

\* ------------------------------------------------------- the rate limiter

ConnectorIds == {"c1"}

\* The values time.time() takes in the model: instants on both sides of the
\* end of a minute window and of an hour window that start at 0 or 30, and
\* the instant the TTL of an hour key set at 0 runs out.  Two reads of the
\* clock with no step between them give the same value.
Instants == {0, 30, 60, 90, 3600, 3630, 7200}
MaxCalls == 4

\* The limits a connector can have (schemas/connector.py: ge = 1)
MinuteLimits == {1, 2}
HourLimits == {2, 3}

minute_key(connector_id) == <<"rate", connector_id, "minute">>
hour_key(connector_id) == <<"rate", connector_id, "hour">>
RateKeys ==
    {minute_key(connector_id) : connector_id \in ConnectorIds}
    \cup {hour_key(connector_id) : connector_id \in ConnectorIds}

\* A sorted set is a set of [member, score] entries, one per member.
str(x) == ToString(x)
\* Mutant of zremrangebyscore: one call removes only the oldest entry of the
\* range
zremrangebyscore_oldest(zset, lo, hi) ==
    LET range == {e \in zset : lo <= e.score /\ e.score <= hi}
    IN IF range = {} THEN zset
       ELSE zset \ {CHOOSE e \in range : \A f \in range : e.score <= f.score}

zremrangebyscore(zset, lo, hi) == {e \in zset : ~(lo <= e.score /\ e.score <= hi)}
zcard(zset) == Cardinality(zset)
zadd(zset, member, score) ==
    {e \in zset : e.member # member} \cup {[member |-> member, score |-> score]}

\* lines 68-73
RateInfo(limit_per_minute, limit_per_hour, minute_count, hour_count, t) ==
    [minute_remaining |-> Max(0, limit_per_minute - minute_count - 1),
     hour_remaining |-> Max(0, limit_per_hour - hour_count - 1),
     minute_reset |-> t + 60,
     hour_reset |-> t + 3600]

\* lines 51-61: the first pipeline, on the two keys of one connector
TrimmedZsets(connector_id, t) ==
    [key \in RateKeys |->
        IF key = minute_key(connector_id) THEN zremrangebyscore(zsets[key], 0, t - 60)
        ELSE IF key = hour_key(connector_id) THEN zremrangebyscore(zsets[key], 0, t - 3600)
        ELSE zsets[key]]

\* lines 77-82: the second pipeline
InsertedZsets(connector_id, t) ==
    [key \in RateKeys |->
        IF key \in {minute_key(connector_id), hour_key(connector_id)}
        THEN zadd(zsets[key], str(t), t)
        ELSE zsets[key]]

\* Mutant of ExpirySet: the TTLs are half a window
ExpirySet_half_window(connector_id, t) ==
    [key \in RateKeys |->
        IF key = minute_key(connector_id) THEN t + 30
        ELSE IF key = hour_key(connector_id) THEN t + 1800
        ELSE expiry[key]]

ExpirySet(connector_id, t) ==
    [key \in RateKeys |->
        IF key = minute_key(connector_id) THEN t + 120
        ELSE IF key = hour_key(connector_id) THEN t + 7200
        ELSE expiry[key]]

\* Redis removes a sorted set that has become empty, and its TTL with it
LiveExpiry(sets, exp) == [key \in RateKeys |-> IF sets[key] = {} THEN 0 ELSE exp[key]]

\* Mutant of check_rate_limit: a denied call is entered into the windows too
check_rate_limit_counts_denied(connector_id) ==
    /\ started < MaxCalls
    /\ LET trimmed == TrimmedZsets(connector_id, now)
           minute_count == zcard(trimmed[minute_key(connector_id)])
           hour_count == zcard(trimmed[hour_key(connector_id)])
           is_allowed == minute_count < limits.minute /\ hour_count < limits.hour
           info == RateInfo(limits.minute, limits.hour, minute_count, hour_count, now)
       IN /\ zsets' = IF is_allowed THEN trimmed
                      ELSE [key \in RateKeys |-> zadd(trimmed[key], str(now), now)]
          /\ expiry' = IF is_allowed THEN LiveExpiry(trimmed, expiry)
                       ELSE ExpirySet(connector_id, now)
          /\ calls' = IF is_allowed
                      THEN calls (+) SetToBag({[connector_id |-> connector_id,
                                                now |-> now, info |-> info]})
                      ELSE calls
          /\ returned' = IF is_allowed THEN returned
                         ELSE [is_allowed |-> FALSE, info |-> info]
    /\ started' = started + 1
    /\ interleaved' = (interleaved \/ calls # EmptyBag)
    /\ UNCHANGED <<now, limits, accepted>>

\* check_rate_limit, lines 40-73: the time is read, the first pipeline runs
\* and the verdict is computed.  A denied call returns at once (line 84); an
\* allowed call awaits its second pipeline.
check_rate_limit(connector_id) ==
    /\ started < MaxCalls
    /\ LET trimmed == TrimmedZsets(connector_id, now)
           minute_count == zcard(trimmed[minute_key(connector_id)])
           hour_count == zcard(trimmed[hour_key(connector_id)])
           is_allowed == minute_count < limits.minute /\ hour_count < limits.hour
           info == RateInfo(limits.minute, limits.hour, minute_count, hour_count, now)
       IN /\ zsets' = trimmed
          /\ expiry' = LiveExpiry(trimmed, expiry)
          /\ calls' = IF is_allowed
                      THEN calls (+) SetToBag({[connector_id |-> connector_id,
                                                now |-> now, info |-> info]})
                      ELSE calls
          /\ returned' = IF is_allowed THEN returned
                         ELSE [is_allowed |-> FALSE, info |-> info]
    /\ started' = started + 1
    /\ interleaved' = (interleaved \/ calls # EmptyBag)
    /\ UNCHANGED <<now, limits, accepted>>

\* check_rate_limit, lines 75-84: the second pipeline of an allowed call
rate_insert(call) ==
    /\ zsets' = InsertedZsets(call.connector_id, call.now)
    /\ expiry' = ExpirySet(call.connector_id, now)
    /\ calls' = calls (-) SetToBag({call})
    /\ returned' = [is_allowed |-> TRUE, info |-> call.info]
    /\ accepted' = accepted (+) SetToBag({call.now})
    /\ UNCHANGED <<now, limits, started, interleaved>>

\* Time passes; Redis drops the keys whose TTL has run out.
Advance(t) ==
    /\ t > now
    /\ now' = t
    /\ zsets' = [key \in RateKeys |->
                    IF expiry[key] # 0 /\ expiry[key] <= t THEN {} ELSE zsets[key]]
    /\ expiry' = [key \in RateKeys |->
                    IF expiry[key] # 0 /\ expiry[key] <= t THEN 0 ELSE expiry[key]]
    /\ UNCHANGED <<limits, calls, started, returned, accepted, interleaved>>

NoReturn == [is_allowed |-> FALSE, info |-> RateInfo(1, 1, 0, 0, 0)]

\* ------------------------------------------------------ the chat endpoint

MaxChats == 2
MaxInFlight == 1
MaxBeats == 2

ChatModels == {"llama3", "gpt-4", "phi:free"}

\* _is_free_model: the identifiers of ChatModels that contain ":free",
\* "/free" or "free:"
_is_free_model(model) == model \in {"phi:free"}

\* Connector rows.  allowed_models and blocked_models are sets, {} for an
\* empty list; a default_params entry is <<v>>, absent is <<>>.
BaseConnector ==
    [id |-> "c1", allowed_models |-> {"*"}, blocked_models |-> {}, priority |-> 5,
     routing_prefer |-> "ollama", routing_fallback |-> "openrouter",
     routing_ollama_only |-> FALSE, routing_cloud_only |-> FALSE,
     default_params |-> [temperature |-> <<>>, max_tokens |-> <<>>, top_p |-> <<>>]]

Connectors ==
    { BaseConnector,
      [BaseConnector EXCEPT !.allowed_models = {"llama3"},
                            !.default_params = [temperature |-> <<0>>, max_tokens |-> <<100>>,
                                                top_p |-> <<9>>]],
      [BaseConnector EXCEPT !.blocked_models = {"gpt-4"}, !.routing_ollama_only = TRUE],
      [BaseConnector EXCEPT !.routing_prefer = "openrouter", !.routing_fallback = "ollama",
                            !.default_params = [temperature |-> <<7>>, max_tokens |-> <<>>,
                                                top_p |-> <<>>]],
      [BaseConnector EXCEPT !.routing_prefer = "openrouter:free"],
      [BaseConnector EXCEPT !.allowed_models = {}, !.routing_cloud_only = TRUE,
                            !.routing_prefer = None, !.routing_fallback = None] }

\* Mutant of is_model_allowed: every model is let through
is_model_allowed_all(conn, model) == TRUE

\* services/auth.py, lines 42-61
is_model_allowed(conn, model) ==
    IF conn.blocked_models # {} /\ model \in conn.blocked_models THEN FALSE
    ELSE LET allowed == IF conn.allowed_models = {} THEN {"*"} ELSE conn.allowed_models
         IN IF "*" \in allowed THEN TRUE ELSE model \in allowed

\* Mutant of _get_provider_order: cloud_only is looked at before ollama_only
_get_provider_order_cloud_first(conn) ==
    IF conn.routing_cloud_only
    THEN IF conn.routing_prefer \in {"openrouter", "openrouter:free"}
         THEN <<conn.routing_prefer>> ELSE <<"openrouter">>
    ELSE IF conn.routing_ollama_only THEN <<"ollama">>
    ELSE LET prefer == IF conn.routing_prefer = None THEN "ollama" ELSE conn.routing_prefer
             fallback == conn.routing_fallback
         IN <<prefer>> \o (IF fallback # None /\ fallback # prefer THEN <<fallback>> ELSE <<>>)

\* router.py, lines 86-107
_get_provider_order(conn) ==
    IF conn.routing_ollama_only THEN <<"ollama">>
    ELSE IF conn.routing_cloud_only
    THEN IF conn.routing_prefer \in {"openrouter", "openrouter:free"}
         THEN <<conn.routing_prefer>> ELSE <<"openrouter">>
    ELSE LET prefer == IF conn.routing_prefer = None THEN "ollama" ELSE conn.routing_prefer
             fallback == conn.routing_fallback
         IN <<prefer>> \o (IF fallback # None /\ fallback # prefer THEN <<fallback>> ELSE <<>>)

\* ---- the node API, api/nodes.py

BackendNodeIds == {"n1", "n2"}

\* The heartbeat payloads each node agent sends.  load is <<>> when absent,
\* else <<cpu>> with cpu itself <<>> for null or <<v>> for a value in percent.
ChatHeartbeats(node_id) ==
    IF node_id = "n1"
    THEN { [cloudflare_url |-> None, ipv4 |-> "10.0.0.1", ipv6 |-> None,
            models |-> {"llama3"}, load |-> << <<20>> >>] }
    ELSE { [cloudflare_url |-> "cf", ipv4 |-> None, ipv6 |-> None,
            models |-> {"*"}, load |-> <<>>],
           [cloudflare_url |-> None, ipv4 |-> None, ipv6 |-> "fd00::1",
            models |-> {"llama3", "gpt-4"}, load |-> << <<>> >>] }

\* x or "" of Python, for an optional string
OrEmpty(x) == IF x = None THEN "" ELSE x

\* register_heartbeat, lines 66-91: the hash written under node:<node_id>.
\* cpu_load holds str(cpu): <<v>> for a number, <<>> for the text "None".
node_data(node_id, payload, connection_ip, t) ==
    [node_id |-> node_id,
     cloudflare_url |-> OrEmpty(payload.cloudflare_url),
     ipv4 |-> IF OrEmpty(payload.ipv4) # "" THEN payload.ipv4 ELSE OrEmpty(connection_ip),
     ipv6 |-> OrEmpty(payload.ipv6),
     models |-> payload.models,
     cpu_load |-> IF payload.load = <<>> THEN <<0>> ELSE payload.load[1],
     status |-> "online",
     active_jobs |-> 0,
     failure_count |-> 0,
     last_seen |-> t,
     expires |-> t + 90]

\* Mutant of register_heartbeat: the secret is not compared
register_heartbeat_unchecked(node_id, payload, connection_ip, secret_ok) ==
    /\ nodes' = (node_id :> node_data(node_id, payload, connection_ip, now)) @@ nodes
    /\ UNCHANGED <<connector, openrouter, chats, chat_started>>

register_heartbeat(node_id, payload, connection_ip, secret_ok) ==
    /\ nodes' = IF secret_ok
                THEN (node_id :> node_data(node_id, payload, connection_ip, now)) @@ nodes
                ELSE nodes
    /\ UNCHANGED <<connector, openrouter, chats, chat_started>>

\* Mutant of remove_node: the first DELETE marks the node offline, the next
\* one removes it
remove_node_soft(node_id) ==
    /\ nodes' = IF node_id \in DOMAIN nodes /\ nodes[node_id].status = "online"
                THEN [nodes EXCEPT ![node_id].status = "offline"]
                ELSE [n \in DOMAIN nodes \ {node_id} |-> nodes[n]]
    /\ UNCHANGED <<connector, openrouter, chats, chat_started>>

\* remove_node, lines 141-157: r.delete, 404 when there was no such key
remove_node(node_id) ==
    /\ nodes' = [n \in DOMAIN nodes \ {node_id} |-> nodes[n]]
    /\ UNCHANGED <<connector, openrouter, chats, chat_started>>

\* ---- the router, services/router.py

\* _build_node_url, lines 175-196: the address the URL is built from
_build_node_url(data) ==
    IF data.cloudflare_url # "" THEN "cloudflare"
    ELSE IF data.ipv4 # "" THEN "ipv4"
    ELSE IF data.ipv6 # "" THEN "ipv6"
    ELSE "localhost"

\* lines 144-151: the filter of _get_best_ollama_node
PassesFilter(data, model) ==
    /\ (model \in data.models \/ "*" \in data.models)
    /\ data.status = "online"

\* lines 167-171, with active_jobs - priority * 0.1 scaled by ten
NodeSortKey(data, priority) ==
    <<data.active_jobs * 10 - priority, data.cpu_load[1], data.failure_count>>

NoNode == [kind |-> "none", node_id |-> None, url |-> None]

\* _get_best_ollama_node, lines 109-173: the values the call can end with.
\* float() of the text "None" raises; KEYS returns the hashes in no fixed
\* order, so among the candidates with the least key any can be first.
_get_best_ollama_node(model, priority) ==
    LET passing == {n \in DOMAIN nodes : PassesFilter(nodes[n], model)}
    IN IF \E n \in passing : nodes[n].cpu_load = <<>>
       THEN {[NoNode EXCEPT !.kind = "raise"]}
       ELSE IF passing = {} THEN {NoNode}
       ELSE {[kind |-> "node", node_id |-> nodes[n].node_id, url |-> _build_node_url(nodes[n])] :
                n \in {m \in passing :
                        \A o \in passing :
                            ~KeyLess(NodeSortKey(nodes[o], priority),
                                     NodeSortKey(nodes[m], priority))}}

\* ---- chat_completions, api/v1/chat.py

\* Request parameters: <<>> for a parameter the request does not set
RequestParams ==
    { [temperature |-> <<>>, max_tokens |-> <<>>],
      [temperature |-> <<0>>, max_tokens |-> <<50>>] }

\* The instants the chat endpoint is observed at: within one minute window
\* and node TTL, and after them
ChatInstants == {60, 90}
UpstreamOutcomes == {"ok", "error"}

NoInfo == RateInfo(1, 1, 0, 0, 0)
NoTarget == [provider |-> None, node_id |-> None, url |-> None]
NoResult == [status |-> 0, provider |-> None, node_id |-> None, errors |-> <<>>]

\* A handler in progress.  counted: check_rate_limit has run for it; log:
\* the upstream calls made for it, in order.  The requests of the model set
\* no top_p.
NewChat(model, temperature, max_tokens) ==
    [pc |-> "insert", model |-> model, temperature |-> temperature,
     max_tokens |-> max_tokens, top_p |-> <<>>, counted |-> FALSE, rl_now |-> 0, info |-> NoInfo,
     todo |-> <<>>, errors |-> <<>>, log |-> <<>>, target |-> NoTarget,
     result |-> NoResult]

ChatSet == BagToSet(chats)
ChatBecomes(old, new) == chats' = (chats (-) SetToBag({old})) (+) SetToBag({new})

Finished(req, status) == [req EXCEPT !.pc = "done", !.result.status = status]

\* bool(defaults.get(name)) of Python: present and not 0
Truthy(param) == param # <<>> /\ param # <<0>>

\* lines 62-67
ApplyDefaults(req, default_params) ==
    [req EXCEPT
        !.temperature = IF @ = <<>> /\ Truthy(default_params.temperature)
                        THEN default_params.temperature ELSE @,
        !.max_tokens = IF @ = <<>> /\ Truthy(default_params.max_tokens)
                       THEN default_params.max_tokens ELSE @]

\* lines 33-59: the model check, then check_rate_limit up to its first
\* pipeline; a refused request ends here with 403 or 429.
chat_completions(model, temperature, max_tokens) ==
    /\ chat_started < MaxChats
    /\ BagCardinality(chats) < MaxInFlight
    /\ chat_started' = chat_started + 1
    /\ LET req == NewChat(model, temperature, max_tokens)
           trimmed == TrimmedZsets(connector.id, now)
           minute_count == zcard(trimmed[minute_key(connector.id)])
           hour_count == zcard(trimmed[hour_key(connector.id)])
           is_allowed == minute_count < limits.minute /\ hour_count < limits.hour
           info == RateInfo(limits.minute, limits.hour, minute_count, hour_count, now)
           counted == [req EXCEPT !.counted = TRUE, !.rl_now = now, !.info = info]
       IN IF ~is_model_allowed(connector, model)
          THEN /\ chats' = chats (+) SetToBag({Finished(req, 403)})
               /\ UNCHANGED <<zsets, expiry, returned>>
          ELSE /\ zsets' = trimmed
               /\ expiry' = LiveExpiry(trimmed, expiry)
               /\ chats' = chats (+) SetToBag({IF is_allowed THEN counted
                                               ELSE Finished(counted, 429)})
               /\ returned' = IF is_allowed THEN returned
                              ELSE [is_allowed |-> FALSE, info |-> info]
    /\ UNCHANGED <<now, limits, calls, started, accepted, interleaved>>
    /\ UNCHANGED <<connector, openrouter, nodes>>

\* check_rate_limit's second pipeline, then lines 61-72: the defaults are
\* applied and route() computes the provider order.
chat_insert(req) ==
    /\ req.pc = "insert"
    /\ zsets' = InsertedZsets(connector.id, req.rl_now)
    /\ expiry' = ExpirySet(connector.id, now)
    /\ returned' = [is_allowed |-> TRUE, info |-> req.info]
    /\ accepted' = accepted (+) SetToBag({req.rl_now})
    /\ ChatBecomes(req, [ApplyDefaults(req, connector.default_params) EXCEPT
                            !.pc = "route", !.todo = _get_provider_order(connector)])
    /\ UNCHANGED <<now, limits, calls, started, interleaved>>
    /\ UNCHANGED <<connector, openrouter, nodes, chat_started>>

\* route(), lines 48-81, to the next provider of the order
Continue(req) == [req EXCEPT !.pc = "route", !.todo = Tail(@), !.target = NoTarget]

Failed(req, provider_type, error) ==
    [Continue(req) EXCEPT !.errors = Append(@, [provider |-> provider_type, error |-> error])]

Calling(req, provider, node_id, url) ==
    [req EXCEPT !.pc = "calling",
                !.target = [provider |-> provider, node_id |-> node_id, url |-> url]]

\* Mutant of RouteStep: the cloud slots do not test self.openrouter
RouteStep_any_key(req, provider_type, best) ==
    IF provider_type = "ollama"
    THEN IF best.kind = "node" THEN Calling(req, "ollama", best.node_id, best.url)
         ELSE IF best.kind = "raise" THEN Failed(req, provider_type, "ValueError")
         ELSE Continue(req)
    ELSE IF provider_type = "openrouter"
    THEN Calling(req, "openrouter", None, None)
    ELSE IF provider_type = "openrouter:free" /\ _is_free_model(req.model)
    THEN Calling(req, "openrouter", None, None)
    ELSE Continue(req)

\* Mutant of RouteStep: a free-only slot fails for a model that is not free
RouteStep_free_slot_fails(req, provider_type, best) ==
    IF provider_type = "ollama"
    THEN IF best.kind = "node" THEN Calling(req, "ollama", best.node_id, best.url)
         ELSE IF best.kind = "raise" THEN Failed(req, provider_type, "ValueError")
         ELSE Continue(req)
    ELSE IF provider_type = "openrouter" /\ openrouter
    THEN Calling(req, "openrouter", None, None)
    ELSE IF provider_type = "openrouter:free" /\ openrouter
    THEN IF _is_free_model(req.model)
         THEN Calling(req, "openrouter", None, None)
         ELSE Failed(req, provider_type, "model is not free")
    ELSE Continue(req)

\* One pass of the loop of route(), lines 48-81, up to its await of the
\* upstream; best is what _get_best_ollama_node returned.
RouteStep(req, provider_type, best) ==
    IF provider_type = "ollama"
    THEN IF best.kind = "node" THEN Calling(req, "ollama", best.node_id, best.url)
         ELSE IF best.kind = "raise" THEN Failed(req, provider_type, "ValueError")
         ELSE Continue(req)
    ELSE IF provider_type = "openrouter" /\ openrouter
    THEN Calling(req, "openrouter", None, None)
    ELSE IF provider_type = "openrouter:free" /\ openrouter /\ _is_free_model(req.model)
    THEN Calling(req, "openrouter", None, None)
    ELSE Continue(req)

\* route(), lines 48-77 and 84; chat.py lines 73-91 turn the error into 503
route(req) ==
    /\ req.pc = "route"
    /\ IF req.todo = <<>>
       THEN ChatBecomes(req, [Finished(req, 503) EXCEPT !.result.errors = req.errors])
       ELSE \E best \in _get_best_ollama_node(req.model, connector.priority) :
                ChatBecomes(req, RouteStep(req, Head(req.todo), best))
    /\ UNCHANGED <<connector, openrouter, nodes, chat_started>>

\* Mutant of Replied: the router goes on to the next provider after a success
Replied_keeps_going(req, outcome) ==
    LET call == [provider |-> Head(req.todo), node_id |-> req.target.node_id,
                 url |-> req.target.url, outcome |-> outcome]
        logged == [req EXCEPT !.log = Append(@, call)]
    IN IF outcome = "ok" /\ Len(req.todo) = 1
       THEN [Finished(logged, 200) EXCEPT !.result.provider = req.target.provider,
                                          !.result.node_id = req.target.node_id]
       ELSE IF outcome = "ok" THEN Continue(logged)
       ELSE Failed(logged, Head(req.todo), "upstream error")

\* lines 57-60, 66-67, 72-73 and 78-81: the upstream call returns or raises
Replied(req, outcome) ==
    LET call == [provider |-> Head(req.todo), node_id |-> req.target.node_id,
                 url |-> req.target.url, outcome |-> outcome]
        logged == [req EXCEPT !.log = Append(@, call)]
    IN IF outcome = "ok"
       THEN [Finished(logged, 200) EXCEPT !.result.provider = req.target.provider,
                                          !.result.node_id = req.target.node_id]
       ELSE Failed(logged, Head(req.todo), "upstream error")

upstream_reply(req, outcome) ==
    /\ req.pc = "calling"
    /\ ChatBecomes(req, Replied(req, outcome))
    /\ UNCHANGED <<connector, openrouter, nodes, chat_started>>

\* The handler returns its response or its HTTPException
chat_respond(req) ==
    /\ req.pc = "done"
    /\ chats' = chats (-) SetToBag({req})
    /\ UNCHANGED <<connector, openrouter, nodes, chat_started>>

\* Redis drops the node hashes whose TTL has run out
node_expiry(t) ==
    /\ nodes' = [n \in {m \in DOMAIN nodes : nodes[m].expires > t} |-> nodes[n]]
    /\ UNCHANGED <<connector, openrouter, chats, chat_started>>

\* ------------------------------------------------------ the pure functions

\* No function applied
NoCall == [op |-> None, connector |-> BaseConnector, model |-> None]

PureIdle ==
    /\ pure_call = NoCall
    /\ pure_out = <<>>
    /\ beats = <<>>

\* The values of routing_prefer and routing_fallback: the three provider
\* names, and NULL (models/connector.py, lines 30-31: nullable columns)
ProviderNames == {"ollama", "openrouter", "openrouter:free"}

RoutingConnectors ==
    { [BaseConnector EXCEPT !.routing_prefer = prefer, !.routing_fallback = fallback,
                            !.routing_ollama_only = ollama_only,
                            !.routing_cloud_only = cloud_only] :
        prefer \in ProviderNames \cup {None}, fallback \in ProviderNames \cup {None},
        ollama_only \in BOOLEAN, cloud_only \in BOOLEAN }

\* The model policies of a connector: allowed_models and blocked_models
\* over the identifiers below, the empty lists included
PolicyModels == {"llama3", "gpt-4", "*"}

PolicyConnectors ==
    { [BaseConnector EXCEPT !.allowed_models = allowed, !.blocked_models = blocked] :
        allowed \in SUBSET PolicyModels, blocked \in SUBSET {"gpt-4", "*"} }

\* chat.py, line 36: the model of a request is checked against a connector
apply_is_model_allowed ==
    /\ pure_call.op = "is_model_allowed"
    /\ pure_out = <<>>
    /\ pure_out' = <<is_model_allowed(pure_call.connector, pure_call.model)>>
    /\ UNCHANGED <<pure_call, beats>>

\* route(), line 45: the order is computed for a connector
apply_provider_order ==
    /\ pure_call.op = "_get_provider_order"
    /\ pure_out = <<>>
    /\ pure_out' = <<_get_provider_order(pure_call.connector)>>
    /\ UNCHANGED <<pure_call, beats>>

\* ------------------------------------------------- heartbeat ingestion

\* The node entries a server registry can hold when a heartbeat arrives
BeatEntries ==
    { [record |-> NodeInfo("n1", NormalizePayload(hb), status), node_id |-> "n1",
       active_jobs |-> active_jobs, failure_count |-> failure_count] :
        hb \in {h \in Heartbeats : h.peer # None},
        status \in {"online", "degraded", "offline"},
        active_jobs \in {0, 1}, failure_count \in {0, 2} }

\* The heartbeats a node sends to the server: those of Heartbeats, and one
\* that advertises every model
BeatHeartbeats ==
    Heartbeats
    \cup { [ipv4 |-> "r4", ipv6 |-> None,
            models |-> {"*"}, cpu |-> <<>>, peer |-> "p4"] }

BeatRegistries == {<<>>} \cup {<<entry>> : entry \in BeatEntries}

\* The heartbeats a node sends to the backend: those of ChatHeartbeats, and
\* one that reports no address at all
BeatPayloads(node_id) ==
    ChatHeartbeats(node_id)
    \cup { [cloudflare_url |-> None, ipv4 |-> None, ipv6 |-> None,
            models |-> {"llama3"}, load |-> <<>>] }

\* request.client.host, None when the transport gives no peer
ConnectionIps == {None, "192.0.2.7"}

\* The node hashes Redis can hold when a heartbeat arrives
BeatStores ==
    {<<>>}
    \cup { ("n1" :> node_data("n1", payload, "192.0.2.7", 0)) :
              payload \in ChatHeartbeats("n1") }

\* POST /nodes/heartbeat of the server, app.py lines 376-426.  Both logging
\* calls (lines 418 and 423) read payload.cloudflare_url, which the payload
\* class does not have: the AttributeError leaves the handler after the
\* registry has been written, and the response is a 500.
beat_register_node(node_id, hb) ==
    /\ Len(beats) < MaxBeats
    /\ \A i \in DOMAIN beats : beats[i].program = "server"
    /\ register_node(node_id, hb)
    /\ beats' = Append(beats, [program |-> "server", op |-> "heartbeat",
                               node_id |-> node_id, at |-> now,
                               call |-> <<hb>>, addressed |-> NormalizePayload(hb).ipv4 # None
                                                  \/ NormalizePayload(hb).ipv6 # None,
                               secret_ok |-> TRUE, status |-> 500,
                               registry_before |-> registry, registry |-> registry',
                               nodes_before |-> nodes, nodes |-> nodes])
    /\ UNCHANGED <<pure_call, pure_out>>

\* POST /api/nodes/heartbeat of the backend, nodes.py lines 52-95
beat_register_heartbeat(node_id, payload, connection_ip, secret_ok) ==
    /\ Len(beats) < MaxBeats
    /\ \A i \in DOMAIN beats : beats[i].program = "backend"
    /\ register_heartbeat(node_id, payload, connection_ip, secret_ok)
    /\ beats' = Append(beats, [program |-> "backend", op |-> "heartbeat",
                               node_id |-> node_id, at |-> now,
                               call |-> <<payload, connection_ip>>,
                               addressed |-> \/ payload.cloudflare_url # None
                                             \/ payload.ipv4 # None
                                             \/ payload.ipv6 # None
                                             \/ connection_ip # None,
                               secret_ok |-> secret_ok,
                               status |-> IF secret_ok THEN 200 ELSE 403,
                               registry_before |-> registry, registry |-> registry,
                               nodes_before |-> nodes, nodes |-> nodes'])
    /\ UNCHANGED <<pure_call, pure_out>>

\* DELETE /api/nodes/{node_id} of the backend, nodes.py lines 141-157
beat_remove_node(node_id) ==
    /\ Len(beats) < MaxBeats
    /\ \A i \in DOMAIN beats : beats[i].program = "backend"
    /\ remove_node(node_id)
    /\ beats' = Append(beats, [program |-> "backend", op |-> "delete",
                               node_id |-> node_id, at |-> now, call |-> <<>>,
                               addressed |-> TRUE, secret_ok |-> TRUE,
                               status |-> IF node_id \in DOMAIN nodes THEN 200 ELSE 404,
                               registry_before |-> registry, registry |-> registry,
                               nodes_before |-> nodes, nodes |-> nodes'])
    /\ UNCHANGED <<pure_call, pure_out>>

\* ------------------------------------------------------- the specifications

\* create_app: an empty registry, the sweeper asleep, no request in progress
ServerInit ==
    /\ registry = <<>>
    /\ sweep_in = SweepSleep
    /\ tasks = [task \in {IdleTask} |-> NumTasks]
    /\ abandoned = 0
    /\ seen = {}
    /\ streak = [node_id \in NodeIds |-> 0]

\* The rate limiter before its first call, the connector's limits among Ls
RateStart(Ls) ==
    /\ now = 0
    /\ zsets = [key \in RateKeys |-> {}]
    /\ expiry = [key \in RateKeys |-> 0]
    /\ limits \in Ls
    /\ calls = EmptyBag
    /\ started = 0
    /\ returned = NoReturn
    /\ accepted = EmptyBag
    /\ interleaved = FALSE

\* models/connector.py, lines 36-37: the default limits
RateIdle == RateStart({[minute |-> 60, hour |-> 1000]})

\* The chat endpoint, never called
ChatIdle ==
    /\ connector = BaseConnector
    /\ openrouter = FALSE
    /\ nodes = <<>>
    /\ chats = EmptyBag
    /\ chat_started = 0

Init == ServerInit /\ RateIdle /\ ChatIdle /\ PureIdle

Next ==
    \/ \E task \in TaskSet, model \in RequestModels :
          create_job(task, model) /\ UNCHANGED <<rate_vars, chat_vars, pure_vars>>
    \/ \E task \in TaskSet : dispatch_to_node(task) /\ UNCHANGED <<rate_vars, chat_vars, pure_vars>>
    \/ \E task \in TaskSet : attempt_start(task) /\ UNCHANGED <<rate_vars, chat_vars, pure_vars>>
    \/ \E task \in TaskSet, outcome \in Outcomes :
          attempt_end(task, outcome) /\ UNCHANGED <<rate_vars, chat_vars, pure_vars>>
    \/ \E task \in TaskSet : node_failed(task) /\ UNCHANGED <<rate_vars, chat_vars, pure_vars>>
    \/ \E task \in TaskSet : cancel_request(task) /\ UNCHANGED <<rate_vars, chat_vars, pure_vars>>
    \/ \E task \in TaskSet : respond(task) /\ UNCHANGED <<rate_vars, chat_vars, pure_vars>>
    \/ \E node_id \in NodeIds, hb \in Heartbeats :
          register_node(node_id, hb) /\ UNCHANGED <<rate_vars, chat_vars, pure_vars>>
    \/ cleanup_loop /\ UNCHANGED <<rate_vars, chat_vars, pure_vars>>
    \/ Tick /\ UNCHANGED <<rate_vars, chat_vars, pure_vars>>

Spec == Init /\ [][Next]_vars

\* The rate limiter of one backend process and its Redis, the registry idle
RateInit == RateStart([minute : MinuteLimits, hour : HourLimits])

InitRate == ServerInit /\ RateInit /\ ChatIdle /\ PureIdle

NextRate ==
    \/ \E connector_id \in ConnectorIds :
          check_rate_limit(connector_id) /\ UNCHANGED <<server_vars, chat_vars, pure_vars>>
    \/ \E call \in BagToSet(calls) : rate_insert(call) /\ UNCHANGED <<server_vars, chat_vars, pure_vars>>
    \/ \E t \in Instants : Advance(t) /\ UNCHANGED <<server_vars, chat_vars, pure_vars>>

SpecRate == InitRate /\ [][NextRate]_vars

\* The backend serving chat requests of one connector
ChatLimits == [minute |-> 1, hour |-> 2]

ChatInit ==
    /\ connector \in Connectors
    /\ openrouter \in BOOLEAN
    /\ nodes = <<>>
    /\ chats = EmptyBag
    /\ chat_started = 0

InitChat == ServerInit /\ RateStart({ChatLimits}) /\ ChatInit /\ PureIdle

NextChat ==
    \/ \E model \in ChatModels, params \in RequestParams :
          chat_completions(model, params.temperature, params.max_tokens)
          /\ UNCHANGED <<server_vars, pure_vars>>
    \/ \E req \in ChatSet : chat_insert(req) /\ UNCHANGED <<server_vars, pure_vars>>
    \/ \E req \in ChatSet : route(req) /\ UNCHANGED <<server_vars, rate_vars, pure_vars>>
    \/ \E req \in ChatSet, outcome \in UpstreamOutcomes :
          upstream_reply(req, outcome) /\ UNCHANGED <<server_vars, rate_vars, pure_vars>>
    \/ \E req \in ChatSet : chat_respond(req) /\ UNCHANGED <<server_vars, rate_vars, pure_vars>>
    \/ \E node_id \in BackendNodeIds, secret_ok \in BOOLEAN :
       \E payload \in ChatHeartbeats(node_id) :
          register_heartbeat(node_id, payload, "192.0.2.7", secret_ok)
          /\ UNCHANGED <<server_vars, rate_vars, pure_vars>>
    \/ \E node_id \in BackendNodeIds : remove_node(node_id) /\ UNCHANGED <<server_vars, rate_vars, pure_vars>>
    \/ \E t \in ChatInstants : Advance(t) /\ node_expiry(t) /\ UNCHANGED <<server_vars, pure_vars>>

SpecChat == InitChat /\ [][NextChat]_vars

\* The pure functions, each applied once to arguments drawn at the start
PureCalls ==
    {[NoCall EXCEPT !.op = "_get_provider_order", !.connector = conn] :
        conn \in RoutingConnectors}
    \cup {[NoCall EXCEPT !.op = "is_model_allowed", !.connector = conn, !.model = model] :
            conn \in PolicyConnectors, model \in PolicyModels}

InitPure ==
    /\ ServerInit /\ RateIdle /\ ChatIdle
    /\ pure_call \in PureCalls
    /\ pure_out = <<>>
    /\ beats = <<>>

NextPure ==
    \/ apply_provider_order /\ UNCHANGED <<server_vars, rate_vars, chat_vars>>
    \/ apply_is_model_allowed /\ UNCHANGED <<server_vars, rate_vars, chat_vars>>

SpecPure == InitPure /\ [][NextPure]_vars

\* Heartbeats arriving at one of the two programs, the server or the
\* backend, which is in a state drawn at the start; time passes in between
InitBeat ==
    /\ registry \in BeatRegistries
    /\ sweep_in = SweepSleep
    /\ tasks = [task \in {IdleTask} |-> NumTasks]
    /\ abandoned = 0
    /\ seen = {}
    /\ streak = [node_id \in NodeIds |-> 0]
    /\ RateIdle
    /\ connector = BaseConnector
    /\ openrouter = FALSE
    /\ nodes \in BeatStores
    /\ registry = <<>> \/ nodes = <<>>
    /\ chats = EmptyBag
    /\ chat_started = 0
    /\ PureIdle

NextBeat ==
    \/ \E node_id \in NodeIds, hb \in BeatHeartbeats :
          beat_register_node(node_id, hb) /\ UNCHANGED <<rate_vars, chat_vars>>
    \/ \E node_id \in NodeIds, secret_ok \in BOOLEAN :
       \E payload \in BeatPayloads(node_id), connection_ip \in ConnectionIps :
          beat_register_heartbeat(node_id, payload, connection_ip, secret_ok)
          /\ UNCHANGED <<server_vars, rate_vars>>
    \/ \E node_id \in NodeIds :
          beat_remove_node(node_id) /\ UNCHANGED <<server_vars, rate_vars>>
    \/ \E t \in ChatInstants : Tick /\ Advance(t) /\ UNCHANGED <<chat_vars, pure_vars>>

SpecBeat == InitBeat /\ [][NextBeat]_vars

\* ------------------------------------------------------------------ claims

Entries == {registry[i] : i \in 1..Len(registry)}

InFlight == {task \in TaskSet : task.pc = "posting"}

\* C1: every registered node has active_jobs >= 0, under every interleaving
\* of heartbeats, sweeper passes, mark_job_start and mark_job_end, an
\* eviction and re-registration during an attempt included.
C1_ActiveJobsNonNegative == \A entry \in Entries : entry.active_jobs >= 0

\* mark_job_end has run for an attempt whose node had active_jobs = 0: the
\* node was evicted and registered again while the attempt was in flight.
C1_Witness ==
    /\ "end_at_zero" \in seen
    /\ \E entry \in Entries : entry.active_jobs = 0

\* C2: when no attempt is in flight (every attempt that called
\* mark_job_start has ended in success or failure), every registered node
\* has active_jobs = 0.
C2_QuiescentMeansZero ==
    (InFlight = {} /\ abandoned = 0)
        => \A entry \in Entries : entry.active_jobs = 0

C2_Witness ==
    /\ InFlight = {} /\ abandoned = 0
    /\ \E task \in TaskSet : task.pc = "done" /\ task.result = "200"
    /\ "end_at_zero" \in seen
    /\ \E entry \in Entries : entry.active_jobs = 0

Rank(via) == CASE via = "cloudflare" -> 1 [] via = "ipv4" -> 2 [] via = "ipv6" -> 3

HasAddress(snapshot, via) ==
    CASE via = "cloudflare" -> snapshot.cloudflare_url # None
      [] via = "ipv4" -> snapshot.ipv4 # None
      [] via = "ipv6" -> snapshot.ipv6 # None

\* The strategies a dispatch call has POSTed to so far, in order.
Attempted(task) ==
    [i \in 1..Len(task.log) |-> task.log[i].via]
    \o (IF task.pc = "posting" THEN <<Head(task.todo)>> ELSE <<>>)

C7_OneFailurePerDispatch == \A task \in TaskSet : task.charged <= 1

\* C8: a node whose last heartbeat is more than HEARTBEAT_OFFLINE_SECONDS
\* old is returned by no candidate selection.
C8_StaleNodeNotSelected ==
    \A entry \in Entries, model \in RequestModels :
        entry.record.age > HEARTBEAT_OFFLINE_SECONDS
            => \A i \in DOMAIN choose_node_ids(registry, model) :
                   choose_node_ids(registry, model)[i] # entry.node_id

\* ------------------------------------------------------ claims: the sweeper

\* A step in which the sweeper wakes and makes its pass
SweeperPass == sweep_in = 0 /\ sweep_in' > 0

\* Seconds since the last heartbeat of an entry (now - last_seen)
SinceLastSeen(entry) == entry.record.age

\* C26: a sweeper pass removes a node when now - last_seen is above
\* HEARTBEAT_OFFLINE_SECONDS; otherwise sets it offline when now - last_seen
\* is above HEARTBEAT_TTL_SECONDS and it is not offline already; otherwise
\* leaves it as it is.  A node whose heartbeat is at most
\* HEARTBEAT_TTL_SECONDS old is neither evicted nor set offline.
C26_SweeperPass ==
    [][SweeperPass =>
          \A entry \in Entries :
              /\ SinceLastSeen(entry) > 180 => ~Has(registry', entry.node_id)
              /\ SinceLastSeen(entry) <= 180 =>
                     /\ Has(registry', entry.node_id)
                     /\ Get(registry', entry.node_id) =
                            IF SinceLastSeen(entry) > 90
                               /\ entry.record.status # "offline"
                            THEN [entry EXCEPT !.record.status = "offline"]
                            ELSE entry
              /\ SinceLastSeen(entry) <= 90 =>
                     /\ Has(registry', entry.node_id)
                     /\ Get(registry', entry.node_id).record.status
                            = entry.record.status]_vars

\* The sweeper has just passed over a node whose heartbeat is exactly
\* HEARTBEAT_TTL_SECONDS old and left it online
C26_Witness ==
    /\ sweep_in = SweepSleep
    /\ \E entry \in Entries :
           SinceLastSeen(entry) = 90 /\ entry.record.status = "online"

\* C27: a node that survives a sweeper pass has the active_jobs,
\* failure_count, last_seen, addresses and models it had before the pass.
C27_SweeperFrame ==
    [][SweeperPass =>
          \A entry \in Entries :
              Has(registry', entry.node_id) =>
                  LET after == Get(registry', entry.node_id) IN
                  /\ after.active_jobs = entry.active_jobs
                  /\ after.failure_count = entry.failure_count
                  /\ after.record.age = entry.record.age
                  /\ after.record.cloudflare_url = entry.record.cloudflare_url
                  /\ after.record.ipv4 = entry.record.ipv4
                  /\ after.record.ipv6 = entry.record.ipv6
                  /\ after.record.models = entry.record.models]_vars

\* The sweeper has just set offline a node that has a job in flight and a
\* failure on its count
C27_Witness ==
    /\ sweep_in = SweepSleep
    /\ \E entry \in Entries :
           /\ entry.record.status = "offline"
           /\ SinceLastSeen(entry) = 135
           /\ entry.active_jobs >= 1
           /\ entry.failure_count >= 1

\* ---------------------------------------- claims: degradation and recovery

Selected(reg, node_id, model) ==
    \E i \in DOMAIN choose_node_ids(reg, model) :
        choose_node_ids(reg, model)[i] = node_id

ThreeFailures(node_id) ==
    streak[node_id] = NODE_MAX_FAILURES /\ Has(registry, node_id)

HeartbeatArrives(node_id) ==
    /\ tasks' = tasks
    /\ \E hb \in Heartbeats :
           registry' = register_node_reg(registry, node_id, hb)

\* C13: a node whose last three dispatches failed, with no success and no
\* heartbeat in between, is degraded and selected for no model; the
\* heartbeat that follows leaves it online with failure_count 0 and
\* selected for every model it advertises.
C13_DegradedThenRecovered ==
    /\ [](\A node_id \in NodeIds :
              ThreeFailures(node_id) =>
                  /\ Get(registry, node_id).record.status \in
                         {"degraded", "offline"}
                  /\ \A model \in RequestModels :
                         ~Selected(registry, node_id, model))
    /\ [][\A node_id \in NodeIds :
              ThreeFailures(node_id) /\ HeartbeatArrives(node_id) =>
                  /\ Get(registry', node_id).record.status = "online"
                  /\ Get(registry', node_id).failure_count = 0
                  /\ \A model \in Get(registry', node_id).record.models :
                         Selected(registry', node_id, model)]_vars

\* A step in which the POST of an attempt in flight ends, with a 2xx
\* response (ok) or without one
AttemptEnds(task, ok) ==
    /\ task.pc = "posting"
    /\ \E new \in BagToSet(tasks') :
           /\ tasks' = (tasks (-) SetToBag({task})) (+) SetToBag({new})
           /\ new.log = Append(task.log, [via |-> Head(task.todo), ok |-> ok])

\* C29: an attempt that ends with a 2xx response leaves its node with
\* failure_count 0, and online if it was degraded; failure_count goes up by
\* one at a failed attempt against the node, goes to 0 at a success or a
\* heartbeat, and changes at no other step, so it counts the failures since
\* the last success or heartbeat.
C29_SuccessResets ==
    /\ [][\A task \in TaskSet :
              AttemptEnds(task, TRUE) /\ Has(registry, task.node) =>
                  /\ Has(registry', task.node)
                  /\ Get(registry', task.node).failure_count = 0
                  /\ Get(registry, task.node).record.status = "degraded"
                         => Get(registry', task.node).record.status = "online"]_vars
    /\ [][\A entry \in Entries :
              Has(registry', entry.node_id) =>
                  LET after == Get(registry', entry.node_id).failure_count IN
                  \/ after = entry.failure_count
                  \/ /\ after = 0
                     /\ \/ HeartbeatArrives(entry.node_id)
                        \/ \E task \in TaskSet :
                              task.node = entry.node_id /\ AttemptEnds(task, TRUE)
                  \/ /\ after = entry.failure_count + 1
                     /\ \E task \in TaskSet :
                           task.node = entry.node_id /\ AttemptEnds(task, FALSE)]_vars

\* An attempt against a degraded node has ended with a 2xx response, and the
\* node is online with no failure on its count
C29_Witness ==
    /\ "success_on_degraded" \in seen
    /\ \E entry \in Entries :
           entry.record.status = "online" /\ entry.failure_count = 0
    /\ \E task \in TaskSet : task.pc = "done" /\ task.result = "200"

\* C35: a registered node with status online has failure_count below
\* NODE_MAX_FAILURES, after every sequence of heartbeats, sweeper passes and
\* attempt completions.
C35_OnlineBelowThreshold ==
    \A entry \in Entries :
        entry.record.status = "online" => entry.failure_count < 3

\* A node has reached the threshold, was degraded, and has since been set
\* offline by the sweeper with its count unchanged
C35_Witness ==
    \E entry \in Entries :
        entry.failure_count >= 3 /\ entry.record.status = "offline"

\* C37: a node that the sweeper set offline is not online after any step
\* but the arrival of a heartbeat for it, the end of an attempt that was in
\* flight included, and is selected for no model while it is offline.
C37_OfflineUntilHeartbeat ==
    /\ [][\A entry \in Entries :
              (/\ entry.record.status = "offline"
               /\ Has(registry', entry.node_id)
               /\ Get(registry', entry.node_id).record.status = "online")
                  => HeartbeatArrives(entry.node_id)]_vars
    /\ [](\A entry \in Entries : \A model \in RequestModels :
              entry.record.status = "offline"
                  => ~Selected(registry, entry.node_id, model))

\* The part of C37 that holds: an offline node is selected for no model, and
\* is online again only after a heartbeat or after an attempt against it
\* ended with a 2xx response
OfflineUntilHeartbeatOrSuccess ==
    /\ [][\A entry \in Entries :
              (/\ entry.record.status = "offline"
               /\ Has(registry', entry.node_id)
               /\ Get(registry', entry.node_id).record.status = "online")
                  => \/ HeartbeatArrives(entry.node_id)
                     \/ \E task \in TaskSet :
                           task.node = entry.node_id /\ AttemptEnds(task, TRUE)]_vars
    /\ [](\A entry \in Entries : \A model \in RequestModels :
              entry.record.status = "offline"
                  => ~Selected(registry, entry.node_id, model))

\* ---------------------------------------------- claims: heartbeat ingestion

\* The server registry without the last_seen of its records
WithoutLastSeen(reg) ==
    [i \in 1..Len(reg) |-> [reg[i] EXCEPT !.record.age = 0]]

\* The node hashes without last_seen and the TTL that is set with it
WithoutExpires(store) ==
    [node_id \in DOMAIN store |-> [store[node_id] EXCEPT !.last_seen = 0, !.expires = 0]]

SameRequest(a, b) ==
    /\ a.program = b.program
    /\ a.op = b.op
    /\ a.node_id = b.node_id
    /\ a.secret_ok /\ b.secret_ok
    /\ a.call = b.call

\* C14: a heartbeat handled right after an identical one leaves the
\* registry (of the server, and of the backend) as the first one left it,
\* last_seen excepted, whatever the registry held before.
C14_HeartbeatIdempotent ==
    \A i \in DOMAIN beats : \A j \in DOMAIN beats :
        j = i + 1 /\ SameRequest(beats[i], beats[j]) =>
            /\ WithoutLastSeen(beats[j].registry) = WithoutLastSeen(beats[i].registry)
            /\ WithoutExpires(beats[j].nodes) = WithoutExpires(beats[i].nodes)

\* The same heartbeat has been handled twice by the server, the second some
\* time after the first, for a node that had failures and a job in flight
C14_Witness ==
    /\ Len(beats) = 2
    /\ SameRequest(beats[1], beats[2])
    /\ beats[1].program = "server"
    /\ beats[1].registry_before # <<>>
    /\ beats[1].registry_before[1].failure_count = 2
    /\ beats[1].registry_before[1].active_jobs = 1
    /\ beats[2].registry_before[1].record.age > 0

\* The same heartbeat has been handled twice by the backend, at two instants
HeartbeatTwiceBackend ==
    /\ Len(beats) = 2
    /\ SameRequest(beats[1], beats[2])
    /\ beats[1].program = "backend"
    /\ beats[1].nodes_before # <<>>
    /\ beats[2].nodes["n1"].expires > beats[1].nodes["n1"].expires

\* C15: a heartbeat to the backend whose X-Node-Secret is missing or wrong
\* is answered with 403 and leaves the node hashes as they were: none
\* created, none rewritten, no TTL extended.
C15_BadSecretRejected ==
    \A i \in DOMAIN beats :
        beats[i].program = "backend" /\ ~beats[i].secret_ok =>
            /\ beats[i].status = 403
            /\ beats[i].nodes = beats[i].nodes_before

\* Two heartbeats with a wrong secret have arrived for a node that is
\* registered with other values than those they carry, and time has passed
C15_Witness ==
    /\ Len(beats) = 2
    /\ \A i \in DOMAIN beats : beats[i].program = "backend" /\ ~beats[i].secret_ok
    /\ beats[1].nodes_before # <<>>
    /\ beats[1].nodes_before["n1"] # node_data("n1", beats[1].call[1], beats[1].call[2], 0)
    /\ now > 0

\* C16: a heartbeat that has no tunnel URL, no ipv4 and no ipv6 once the
\* connection address has been taken into account is answered with a 4xx
\* and registers or refreshes nothing; every registered node therefore has
\* an address.
C16_AddresslessRejected ==
    /\ \A i \in DOMAIN beats :
           ~beats[i].addressed /\ beats[i].secret_ok =>
               /\ beats[i].status \in 400..499
               /\ beats[i].registry = beats[i].registry_before
               /\ beats[i].nodes = beats[i].nodes_before
    /\ \A i \in 1..Len(registry) :
           registry[i].record.ipv4 # None \/ registry[i].record.ipv6 # None
    /\ \A node_id \in DOMAIN nodes :
           \/ nodes[node_id].cloudflare_url # ""
           \/ nodes[node_id].ipv4 # ""
           \/ nodes[node_id].ipv6 # ""

\* C22: a DELETE of a node right after a DELETE of the same node changes
\* nothing and is answered 404; the store is as the first DELETE left it.
C22_DeleteIdempotent ==
    \A i \in DOMAIN beats : \A j \in DOMAIN beats :
        /\ j = i + 1
        /\ beats[i].op = "delete" /\ beats[j].op = "delete"
        /\ beats[i].node_id = beats[j].node_id
        => /\ beats[j].nodes = beats[i].nodes
           /\ beats[j].nodes = beats[j].nodes_before
           /\ beats[j].status = 404

\* A registered node has been deleted, and deleted again
C22_Witness ==
    /\ Len(beats) = 2
    /\ beats[1].op = "delete" /\ beats[2].op = "delete"
    /\ beats[1].node_id = beats[2].node_id
    /\ beats[1].status = 200
    /\ beats[1].nodes_before # <<>>

\* A heartbeat that the handler applied: every heartbeat to the server, and
\* a heartbeat to the backend that carries the secret
Applied(beat) == beat.op = "heartbeat" /\ beat.secret_ok

\* C28: after a heartbeat has been applied the node is registered with
\* status online, failure_count 0 and last_seen the time of the heartbeat,
\* whether it is the first one of the node or finds the node online,
\* degraded or offline.
C28_HeartbeatRefreshes ==
    \A i \in DOMAIN beats :
        Applied(beats[i]) =>
            /\ beats[i].program = "server" =>
                   /\ Has(beats[i].registry, beats[i].node_id)
                   /\ LET entry == Get(beats[i].registry, beats[i].node_id) IN
                      /\ entry.record.status = "online"
                      /\ entry.failure_count = 0
                      /\ entry.record.age = 0
            /\ beats[i].program = "backend" =>
                   /\ beats[i].node_id \in DOMAIN beats[i].nodes
                   /\ LET hash == beats[i].nodes[beats[i].node_id] IN
                      /\ hash.status = "online"
                      /\ hash.failure_count = 0
                      /\ hash.last_seen = beats[i].at

\* A heartbeat has reached the server for a node that was offline, had
\* failures on its count and had not been heard of for some time
C28_Witness ==
    \E i \in DOMAIN beats :
        /\ Applied(beats[i]) /\ beats[i].program = "server"
        /\ beats[i].registry_before # <<>>
        /\ beats[i].registry_before[1].record.status = "offline"
        /\ beats[i].registry_before[1].failure_count = 2
        /\ beats[i].registry_before[1].record.age > 0

\* A first heartbeat has created the record of a node on the server, and
\* one on the backend has rewritten a hash written at an earlier time
FirstAndLaterHeartbeat ==
    \/ \E i \in DOMAIN beats :
          /\ Applied(beats[i]) /\ beats[i].program = "server"
          /\ beats[i].registry_before = <<>>
    \/ \E i \in DOMAIN beats :
          /\ Applied(beats[i]) /\ beats[i].program = "backend"
          /\ beats[i].nodes_before # <<>>
          /\ beats[i].at > 0

\* C38: a heartbeat applied for a node that is registered already leaves
\* the node's active_jobs as it was, on the server and on the backend.
C38_HeartbeatKeepsActiveJobs ==
    \A i \in DOMAIN beats :
        Applied(beats[i]) =>
            /\ (beats[i].program = "server"
                /\ Has(beats[i].registry_before, beats[i].node_id)) =>
                   Get(beats[i].registry, beats[i].node_id).active_jobs
                       = Get(beats[i].registry_before, beats[i].node_id).active_jobs
            /\ (beats[i].program = "backend"
                /\ beats[i].node_id \in DOMAIN beats[i].nodes_before) =>
                   beats[i].nodes[beats[i].node_id].active_jobs
                       = beats[i].nodes_before[beats[i].node_id].active_jobs

\* A heartbeat has reached the server for a node with a job in flight, and
\* the node still has it
C38_Witness ==
    \E i \in DOMAIN beats :
        /\ Applied(beats[i]) /\ beats[i].program = "server"
        /\ beats[i].registry_before # <<>>
        /\ beats[i].registry_before[1].active_jobs = 1
        /\ beats[i].registry[1].active_jobs = 1

\* C38 on the server while requests run: the step in which a heartbeat
\* arrives leaves active_jobs of a registered node as it was
HeartbeatKeepsJobsInFlight ==
    [][\A entry \in Entries :
          HeartbeatArrives(entry.node_id) =>
              Get(registry', entry.node_id).active_jobs = entry.active_jobs]_vars

\* A heartbeat of the backend has rewritten the hash of a registered node
BackendHeartbeatRewrites ==
    \E i \in DOMAIN beats :
        /\ Applied(beats[i]) /\ beats[i].program = "backend"
        /\ beats[i].node_id \in DOMAIN beats[i].nodes_before
        /\ beats[i].nodes # beats[i].nodes_before

\* ------------------------------------------- claims: candidate selection

Advertises(models, model) == model \in models \/ "*" \in models

\* C17: the candidates for a model are exactly the registered nodes that
\* are online and advertise the model or "*", in the server's
\* choose_node_ids and in the filter of the backend's
\* _get_best_ollama_node.
C17_CandidatesExact ==
    /\ \A model \in RequestModels :
           {choose_node_ids(registry, model)[i] :
               i \in DOMAIN choose_node_ids(registry, model)}
           = {registry[i].node_id :
                 i \in {k \in 1..Len(registry) :
                           /\ registry[k].record.status = "online"
                           /\ Advertises(registry[k].record.models, model)}}
    /\ \A model \in ChatModels :
           {node_id \in DOMAIN nodes : PassesFilter(nodes[node_id], model)}
           = {node_id \in DOMAIN nodes :
                 /\ nodes[node_id].status = "online"
                 /\ Advertises(nodes[node_id].models, model)}

\* The part of C17 that the server keeps: no node that is offline or
\* degraded, and none that advertises neither the model nor "*", is a
\* candidate.
CandidatesSound ==
    \A model \in RequestModels :
        \A i \in 1..Len(registry) :
            Selected(registry, registry[i].node_id, model) =>
                /\ registry[i].record.status = "online"
                /\ Advertises(registry[i].record.models, model)

\* The hash of the node can only come from a heartbeat that carried no load
NoLoadReported(n) ==
    /\ \E payload \in ChatHeartbeats(n) :
           nodes[n] = node_data(n, payload, "192.0.2.7", nodes[n].last_seen)
    /\ \A payload \in ChatHeartbeats(n) :
           nodes[n] = node_data(n, payload, "192.0.2.7", nodes[n].last_seen)
               => payload.load = <<>>

\* The hash of the node comes from a heartbeat that reported a cpu load
\* below 1.0 (100 percent)
ReportedBelowOne(n) ==
    \E payload \in ChatHeartbeats(n) :
        /\ nodes[n] = node_data(n, payload, "192.0.2.7", nodes[n].last_seen)
        /\ payload.load # <<>> /\ payload.load[1] # <<>>
        /\ payload.load[1][1] < 100

\* A step in which the router selects a node for the request and calls it
Selects(req, n) ==
    /\ req.pc = "route"
    /\ \E new \in BagToSet(chats') :
           /\ chats' = (chats (-) SetToBag({req})) (+) SetToBag({new})
           /\ new.pc = "calling"
           /\ new.target.provider = "ollama"
           /\ new.target.node_id = n

\* C32: a node that reported no load is ranked with cpu load 1.0: it is not
\* selected ahead of a candidate with the same active_jobs that reported a
\* cpu load below 1.0.
C32_NoLoadRanksLast ==
    [][\A req \in ChatSet : \A n \in DOMAIN nodes : \A m \in DOMAIN nodes :
          (/\ Selects(req, n)
           /\ PassesFilter(nodes[m], req.model)
           /\ nodes[m].active_jobs = nodes[n].active_jobs
           /\ ReportedBelowOne(m))
              => ~NoLoadReported(n)]_vars

\* Registries of the server with two nodes
TwoNodeRegistries ==
    { <<[a EXCEPT !.node_id = "n1", !.record.node_id = "n1"],
        [b EXCEPT !.node_id = "n2", !.record.node_id = "n2"]>> :
        a \in BeatEntries, b \in BeatEntries }

\* C32 for choose_node_ids of the server: with equal active_jobs, a node
\* without a cpu value comes after a node that reported one below 1.0
ServerNoLoadRanksLast ==
    \A reg \in TwoNodeRegistries : \A model \in RequestModels :
        LET ids == choose_node_ids(reg, model) IN
        (Len(ids) = 2 /\ reg[1].active_jobs = reg[2].active_jobs) =>
            (Get(reg, ids[1]).record.cpu = <<>> =>
                 \/ Get(reg, ids[2]).record.cpu = <<>>
                 \/ Get(reg, ids[2]).record.cpu[1] >= 100)

\* Two nodes of the server are candidates, one with a cpu value and one
\* without
ServerRankedPair ==
    \E reg \in TwoNodeRegistries :
        /\ Len(choose_node_ids(reg, "llama3")) = 2
        /\ reg[1].record.cpu = <<>> /\ reg[2].record.cpu # <<>>
        /\ choose_node_ids(reg, "llama3") = <<"n2", "n1">>

\* ------------------------------------------------- claims: the rate limiter

RECURSIVE SumOver(_, _)
SumOver(bag, S) ==
    IF S = {} THEN 0
    ELSE LET x == CHOOSE x \in S : TRUE IN bag[x] + SumOver(bag, S \ {x})

\* The accepted requests with a timestamp in [lo, lo + length)
AcceptedIn(lo, length) ==
    SumOver(accepted, {t \in DOMAIN accepted : lo <= t /\ t < lo + length})

\* C3: when check_rate_limit calls run one at a time, no 60-second window
\* holds more accepted requests than limit_per_minute and no 3600-second
\* window more than limit_per_hour.
C3_SequentialWithinLimits ==
    ~interleaved =>
        \A t \in DOMAIN accepted :
            /\ AcceptedIn(t, 60) <= limits.minute
            /\ AcceptedIn(t, 3600) <= limits.hour

\* C4: when calls interleave between their two pipelines, a window holds at
\* most one accepted request more than its limit.
C4_OvershootAtMostOne ==
    \A t \in DOMAIN accepted :
        /\ AcceptedIn(t, 60) <= limits.minute + 1
        /\ AcceptedIn(t, 3600) <= limits.hour + 1

\* No two accepted requests read the same value of time.time()
NoCollision == \A t \in DOMAIN accepted : accepted[t] = 1

\* Sequential calls with pairwise distinct timestamps stay within the limits
SequentialDistinctWithinLimits == NoCollision => C3_SequentialWithinLimits

\* Interleaved calls overshoot by more than one also with distinct timestamps
DistinctOvershootAtMostOne == NoCollision => C4_OvershootAtMostOne

\* The calls so far ran one at a time, inside the first minute, on windows
\* that were empty at the start, and none is in progress
OneMinuteSequential ==
    /\ ~interleaved
    /\ now < 60
    /\ calls = EmptyBag
    /\ started >= 1

\* What the k-th of these calls returns, up to the reset times
ReturnedAsExpected ==
    LET k == started IN
    /\ k <= limits.minute =>
           /\ returned.is_allowed
           /\ returned.info.minute_remaining = limits.minute - (k - 1) - 1
           /\ returned.info.hour_remaining = limits.hour - (k - 1) - 1
    /\ k = limits.minute + 1 =>
           /\ ~returned.is_allowed
           /\ returned.info.minute_remaining = 0
           /\ returned.info.hour_remaining = Max(0, limits.hour - limits.minute - 1)

\* A step in which a call returns, having read the clock at t
Returns(t) ==
    \/ /\ started' = started + 1
       /\ calls' = calls
       /\ t = now
    \/ \E call \in BagToSet(calls) :
          /\ calls' = calls (-) SetToBag({call})
          /\ t = call.now

\* C18: of L + 1 sequential calls inside one minute on empty windows the
\* first L are allowed and the last is denied with minute_remaining 0; the
\* k-th call returns limit - (k - 1) - 1 for both windows, not below 0, and
\* every call returns minute_reset = now + 60 and hour_reset = now + 3600.
C18_SequentialMinute ==
    /\ [](OneMinuteSequential => ReturnedAsExpected)
    /\ [][\A t \in Instants :
              Returns(t) =>
                  /\ returned'.info.minute_reset = t + 60
                  /\ returned'.info.hour_reset = t + 3600]_vars

\* C18 for calls of which no two accepted ones read the same time
SequentialMinuteDistinct ==
    OneMinuteSequential /\ NoCollision => ReturnedAsExpected

\* The reset times of C18, which hold for every call
ResetTimes ==
    [][\A t \in Instants :
          Returns(t) =>
              /\ returned'.info.minute_reset = t + 60
              /\ returned'.info.hour_reset = t + 3600]_vars

\* The length in seconds of the window a key holds
WindowOf(key) == IF key[3] = "minute" THEN 60 ELSE 3600

\* C23: trimming a window twice at one time value, with no insert in
\* between, leaves the entries and the count that trimming it once leaves.
C23_TrimIdempotent ==
    \A key \in RateKeys : \A t \in Instants :
        LET once == zremrangebyscore(zsets[key], 0, t - WindowOf(key))
            twice == zremrangebyscore(once, 0, t - WindowOf(key))
        IN twice = once /\ zcard(twice) = zcard(once)

\* A window holds two entries that a trim at the present time removes
C23_Witness ==
    \E key \in RateKeys :
        Cardinality({e \in zsets[key] : e.score <= now - WindowOf(key)}) >= 2

\* The entries of a window that are not strictly older than the window
NotOlder(key, t) == {e \in zsets[key] : e.score >= t - WindowOf(key)}

\* A step in which check_rate_limit reads the clock and runs its first
\* pipeline; the call is allowed when it goes on to its second pipeline
CheckRuns == started' = started + 1
CheckAllows == calls' # calls

\* C24: a call is allowed exactly when the minute window holds fewer than
\* limit_per_minute and the hour window fewer than limit_per_hour entries
\* that are not older than the window; the trim removes an entry only when
\* its score is strictly less than now minus the window length.
C24_AllowedIffBelowLimits ==
    [][CheckRuns =>
          /\ CheckAllows <=>
                 /\ Cardinality(NotOlder(minute_key("c1"), now)) < limits.minute
                 /\ Cardinality(NotOlder(hour_key("c1"), now)) < limits.hour
          /\ \A key \in RateKeys : NotOlder(key, now) \subseteq zsets'[key]]_vars

\* C24 with the trim the code performs, which also removes the entries whose
\* score is exactly now minus the window length
AllowedIffBelowLimitsInclusive ==
    [][CheckRuns =>
          (CheckAllows <=>
               /\ Cardinality({e \in zsets[minute_key("c1")] : e.score > now - 60})
                      < limits.minute
               /\ Cardinality({e \in zsets[hour_key("c1")] : e.score > now - 3600})
                      < limits.hour)]_vars

\* C25: the second pipeline of an allowed call adds one entry to the minute
\* window and one to the hour window, also when an accepted request with
\* the same timestamp is in them already.
C25_OneEntryPerAccepted ==
    [][accepted' # accepted =>
          \A key \in RateKeys : zcard(zsets'[key]) = zcard(zsets[key]) + 1]_vars

\* C39: a denied call inserts nothing and refreshes no TTL: after it each
\* window holds entries it held before, those it lost are at least one
\* window old, no key expires later than before, and no request is accepted.
C39_DeniedLeavesWindows ==
    [][(CheckRuns /\ ~CheckAllows) =>
          /\ \A key \in RateKeys :
                 /\ zsets'[key] \subseteq zsets[key]
                 /\ \A e \in zsets[key] \ zsets'[key] :
                        e.score <= now - WindowOf(key)
                 /\ expiry'[key] <= expiry[key]
          /\ accepted' = accepted
          /\ ~returned'.is_allowed]_vars

\* A call has been denied on the hour limit, at a time when the trim
\* emptied the minute window
C39_Witness ==
    /\ ~returned.is_allowed
    /\ returned.info.minute_reset = now + 60
    /\ now >= 60
    /\ zsets[minute_key("c1")] = {}
    /\ zcard(zsets[hour_key("c1")]) >= limits.hour

\* A step in which the TTL of a key runs out and Redis drops the key with
\* the entries it holds
KeyExpires(key) ==
    /\ now' > now
    /\ zsets[key] # {} /\ zsets'[key] = {}
    /\ expiry[key] # 0 /\ expiry'[key] = 0

\* C40: when a key expires every entry it holds is older than the key's
\* window; as long as a key holds an entry its TTL runs for at least two
\* windows after the entry's time.
C40_ExpiryDropsOnlyOld ==
    /\ [][\A key \in RateKeys :
              KeyExpires(key) =>
                  \A e \in zsets[key] :
                      /\ e.score + WindowOf(key) < expiry[key]
                      /\ e.score + WindowOf(key) < now']_vars
    /\ [](\A key \in RateKeys : \A e \in zsets[key] :
              expiry[key] >= e.score + 2 * WindowOf(key))

\* The hour key has expired at the instant its TTL ran out, after the
\* requests of the first minute were accepted
C40_Witness ==
    /\ now = 7200
    /\ accepted # EmptyBag
    /\ \A key \in RateKeys : zsets[key] = {} /\ expiry[key] = 0
    /\ started >= 1 /\ calls = EmptyBag

\* ------------------------------------------------- claims: jobs in flight

\* The attempts against a node that have started and not finished: the
\* requests whose POST to it is pending
Pending(node_id) ==
    SumOver(tasks, {task \in InFlight : task.node = node_id})

\* C19: for every registered node, active_jobs is the number of attempts
\* against it that have started and not finished, whatever heartbeats,
\* sweeper passes, evictions and re-registrations happen in between.
C19_ActiveJobsCountsAttempts ==
    \A entry \in Entries : entry.active_jobs = Pending(entry.node_id)

\* C19 for runs in which no request was cancelled in flight
CountsAttemptsUncancelled ==
    abandoned = 0 => C19_ActiveJobsCountsAttempts

\* A step in which a request that was cancelled during its POST leaves
CancelledLeaves(task) ==
    /\ task.pc = "cancelled"
    /\ CopiesIn(task, tasks') < CopiesIn(task, tasks)

\* C21: a request cancelled while an attempt waits on its POST makes no
\* further attempt: its next step is the end of the handler, with no other
\* strategy and no other candidate tried, and the registry untouched.
C21_NoRetryAfterCancel ==
    /\ [][abandoned' # abandoned =>
              \E task \in InFlight :
                  /\ tasks' = (tasks (-) SetToBag({task}))
                                  (+) SetToBag({[task EXCEPT !.pc = "cancelled"]})
                  /\ registry' = registry]_vars
    /\ [][\A task \in TaskSet :
              CancelledLeaves(task) =>
                  /\ tasks' = (tasks (-) SetToBag({task})) (+) SetToBag({IdleTask})
                  /\ registry' = registry]_vars

\* A request has been cancelled during its first POST while its node had a
\* second address left to try
C21_Witness ==
    \E task \in TaskSet :
        /\ task.pc = "cancelled"
        /\ Len(task.todo) = 2
        /\ task.log = <<>>

\* A step in which an attempt in flight ends: its request is no longer
\* waiting on the POST
AttemptOver(task, new) ==
    /\ task.pc = "posting" /\ new.pc # "posting"
    /\ tasks' = (tasks (-) SetToBag({task})) (+) SetToBag({new})

\* mark_job_end has run for the node in this step: its count of jobs is one
\* lower, or 0
JobEndMarked(node_id) ==
    /\ Has(registry', node_id)
    /\ Get(registry', node_id).active_jobs
           = Max(Get(registry, node_id).active_jobs - 1, 0)

\* C36: every attempt that called mark_job_start calls mark_job_end when it
\* ends, whether by a 2xx, a non-2xx, a transport error or the cancellation
\* of the request during the POST; once no attempt is in flight no node has
\* active_jobs above 0.
C36_EveryStartMatched ==
    /\ [][\A task \in TaskSet : \A new \in BagToSet(tasks') :
              AttemptOver(task, new) /\ Has(registry, task.node)
                  => JobEndMarked(task.node)]_vars
    /\ [](InFlight = {} => \A entry \in Entries : entry.active_jobs = 0)

\* C36 for the attempts that end because the POST returned or raised
EveryReturnMarked ==
    [][\A task \in TaskSet : \A new \in BagToSet(tasks') :
          (AttemptOver(task, new) /\ new.pc # "cancelled" /\ Has(registry, task.node))
              => JobEndMarked(task.node)]_vars

\* --------------------------------------------- claims: retries in a request

\* What is left of a request of the server: a bound on the steps its
\* handler still takes
Remaining(task) ==
    8 * Len(task.cands) + 2 * Len(task.todo)
    + (CASE task.pc = "dispatch" -> 9
         [] task.pc = "attempt" -> 2
         [] task.pc = "posting" -> 1
         [] task.pc = "failed" -> 2
         [] OTHER -> 0)

\* A step of the handler of a request that is under way
HandlerStep(task, new) ==
    /\ task.pc \notin {"idle", "done", "cancelled"}
    /\ new # task
    /\ tasks' = (tasks (-) SetToBag({task})) (+) SetToBag({new})

ChatRemaining(req) ==
    2 * Len(req.todo)
    + (CASE req.pc = "insert" -> 7
         [] req.pc = "route" -> 2
         [] req.pc = "calling" -> 1
         [] OTHER -> 0)

\* C34 for the router of the backend: every provider slot of the order is
\* called at most once, no node is called twice, and each step of the
\* handler lowers what is left of the request
RouterNoTargetTwice ==
    /\ [](\A req \in ChatSet :
              /\ \A i \in DOMAIN req.log : \A j \in DOMAIN req.log :
                     i # j => /\ req.log[i].provider # req.log[j].provider
                              /\ req.log[i].node_id = None
                                 \/ req.log[i].node_id # req.log[j].node_id
              /\ Len(req.log) <= Len(_get_provider_order(connector)))
    /\ [][\A req \in ChatSet : \A new \in BagToSet(chats') :
              (/\ req.pc # "done" /\ new # req
               /\ chats' = (chats (-) SetToBag({req})) (+) SetToBag({new}))
                  => ChatRemaining(new) < ChatRemaining(req)]_vars

\* A request of the backend has called two provider slots
RouterCalledTwoSlots == \E req \in ChatSet : Len(req.log) = 2

\* ------------------------------------------------ claims: the chat endpoint

\* The model is blocked, or not covered by the allow list (an empty allow
\* list stands for ["*"])
ModelRefused(conn, model) ==
    \/ model \in conn.blocked_models
    \/ /\ conn.allowed_models # {}
       /\ "*" \notin conn.allowed_models
       /\ model \notin conn.allowed_models

\* A step in which a request for a refused model enters the handler
RefusedArrives ==
    \E req \in BagToSet(chats') :
        /\ ModelRefused(connector, req.model)
        /\ CopiesIn(req, chats') > CopiesIn(req, chats)

\* C5: a chat request whose model fails is_model_allowed ends with 403
\* before the rate limiter runs: check_rate_limit is not called for it, the
\* step that refuses it leaves both rate-limit windows as they were, and no
\* provider is called for it.
C5_RefusedBeforeRateLimit ==
    /\ [](\A req \in ChatSet :
            ModelRefused(connector, req.model) =>
                /\ req.pc = "done" /\ req.result.status = 403
                /\ ~req.counted
                /\ req.log = <<>> /\ req.target = NoTarget)
    /\ [][RefusedArrives => zsets' = zsets /\ expiry' = expiry /\ accepted' = accepted]_vars

C5_Witness ==
    /\ accepted # EmptyBag
    /\ \E req \in ChatSet :
          ModelRefused(connector, req.model) /\ req.result.status = 403

\* The place of a provider in the connector's order, 0 when it is not in it
OrderIndex(provider) ==
    LET order == _get_provider_order(connector)
        at == {i \in 1..Len(order) : order[i] = provider}
    IN IF at = {} THEN 0 ELSE CHOOSE i \in at : TRUE

C10_EveryProviderReported ==
    \A req \in ChatSet :
        req.result.status = 503 =>
            LET order == _get_provider_order(connector)
                errors == req.result.errors
            IN /\ Len(errors) = Len(order)
               /\ \A i \in 1..Len(order) : errors[i].provider = order[i]

\* C20: without an API key (self.openrouter is None) no request reaches the
\* cloud upstream, and a cloud slot of the connector's order leaves no trace:
\* no call, no error entry, and the response is the one of the order without
\* its cloud slots.
C20_NoKeyNoCloud ==
    ~openrouter =>
        \A req \in ChatSet :
            /\ req.target.provider # "openrouter"
            /\ \A i \in DOMAIN req.log : req.log[i].provider = "ollama"
            /\ \A i \in DOMAIN req.errors : req.errors[i].provider = "ollama"
            /\ req.result.provider # "openrouter"
            /\ req.result.status = 503 => req.result.errors = req.errors

\* Without a key, a request of a connector that prefers the cloud and falls
\* back to Ollama has been answered by an Ollama node, after one call
C20_Witness ==
    /\ ~openrouter
    /\ connector.routing_prefer = "openrouter"
    /\ connector.routing_fallback = "ollama"
    /\ \E req \in ChatSet :
           /\ req.result.status = 200
           /\ req.result.provider = "ollama"
           /\ Len(req.log) = 1

\* A step in which the call of a request to a node ends without a response
LocalAttemptFails(req, new) ==
    /\ req.pc = "calling" /\ req.target.provider = "ollama"
    /\ chats' = (chats (-) SetToBag({req})) (+) SetToBag({new})
    /\ Len(new.log) = Len(req.log) + 1
    /\ new.log[Len(new.log)].outcome = "error"

\* The nodes that were candidates for the request when the router selected
\* (their hash was written at an instant before the one the request was
\* counted at, and not rewritten or deleted since) and that it has not called
UntriedCandidates(req) ==
    {n \in DOMAIN nodes :
        /\ PassesFilter(nodes[n], req.model)
        /\ nodes[n].cpu_load # <<>>
        /\ nodes[n].last_seen < req.rl_now
        /\ n # req.target.node_id
        /\ \A i \in DOMAIN req.log : req.log[i].node_id # n}

\* C30: when the call to the best-ranked node fails and the selection held
\* another candidate, the router does not yet record the failure of the
\* Ollama provider nor move to the next provider: the next candidate is
\* tried first.
C30_NextCandidateTried ==
    [][\A req \in ChatSet : \A new \in BagToSet(chats') :
          LocalAttemptFails(req, new) /\ UntriedCandidates(req) # {} =>
              /\ new.errors = req.errors
              /\ new.todo = req.todo]_vars

\* The identifiers of ChatModels that contain none of ":free", "/free" and
\* "free:"
NotFree(model) == model \in {"llama3", "gpt-4"}

\* A step of the handler of the request, which leaves it as new
RouterStep(req, new) ==
    /\ new # req
    /\ chats' = (chats (-) SetToBag({req})) (+) SetToBag({new})

\* C31: for a model that is not free, the slot "openrouter:free" gets no
\* upstream call and no error entry, and the router goes on to the next
\* provider of the order.
C31_FreeSlotSkipped ==
    /\ [](\A req \in ChatSet :
              NotFree(req.model) =>
                  /\ \A i \in DOMAIN req.log : req.log[i].provider # "openrouter:free"
                  /\ \A i \in DOMAIN req.errors :
                         req.errors[i].provider # "openrouter:free"
                  /\ req.pc = "calling" => Head(req.todo) # "openrouter:free")
    /\ [][\A req \in ChatSet : \A new \in BagToSet(chats') :
              (/\ req.pc = "route" /\ req.todo # <<>>
               /\ Head(req.todo) = "openrouter:free" /\ NotFree(req.model)
               /\ RouterStep(req, new))
                  => new = [req EXCEPT !.todo = Tail(@)]]_vars

\* A request for a model that is not free, of a connector that prefers the
\* free cloud models, has been answered by the slot after the free one
C31_Witness ==
    /\ openrouter
    /\ connector.routing_prefer = "openrouter:free"
    /\ \E req \in ChatSet :
           /\ NotFree(req.model)
           /\ req.result.status = 200
           /\ req.errors = <<>>
           /\ Len(req.log) = 1 /\ req.log[1].provider = "openrouter"

\* A step in which the handler of a request applies the connector's
\* defaults and hands the request to the router
DefaultsApplied(req, new) ==
    /\ req.pc = "insert" /\ new.pc = "route"
    /\ chats' = (chats (-) SetToBag({req})) (+) SetToBag({new})

\* The value the request carries upstream for a parameter it had as value,
\* when the connector's default for it is default
Defaulted(value, default) ==
    IF value = <<>> /\ default # <<>> THEN default ELSE value

\* C33: the request handed to the router carries the connector's default
\* for every parameter the connector has one for (0 included) and the
\* request does not set, and its own value for every parameter it sets.
C33_DefaultsFilledIn ==
    [][\A req \in ChatSet : \A new \in BagToSet(chats') :
          DefaultsApplied(req, new) =>
              /\ new.temperature =
                     Defaulted(req.temperature, connector.default_params.temperature)
              /\ new.max_tokens =
                     Defaulted(req.max_tokens, connector.default_params.max_tokens)
              /\ new.top_p = Defaulted(req.top_p, connector.default_params.top_p)]_vars

\* The part of C33 the handler keeps: a parameter the request sets is not
\* overwritten, and a default of temperature or max_tokens that is not 0
\* is filled in
DefaultsNeverOverwrite ==
    [][\A req \in ChatSet : \A new \in BagToSet(chats') :
          DefaultsApplied(req, new) =>
              /\ req.temperature # <<>> => new.temperature = req.temperature
              /\ req.max_tokens # <<>> => new.max_tokens = req.max_tokens
              /\ req.top_p # <<>> => new.top_p = req.top_p
              /\ (req.temperature = <<>>
                  /\ connector.default_params.temperature \notin {<<>>, <<0>>})
                     => new.temperature = connector.default_params.temperature
              /\ (req.max_tokens = <<>>
                  /\ connector.default_params.max_tokens \notin {<<>>, <<0>>})
                     => new.max_tokens = connector.default_params.max_tokens]_vars

\* The defaults of temperature alone, for a connector whose default is not 0
DefaultTemperatureFilledIn ==
    [][\A req \in ChatSet : \A new \in BagToSet(chats') :
          (DefaultsApplied(req, new) /\ connector.default_params.temperature # <<0>>) =>
              new.temperature =
                  Defaulted(req.temperature, connector.default_params.temperature)]_vars

\* --------------------------------------------- claims: the pure functions

\* The order the connector's flags call for
ExpectedOrder(conn) ==
    IF conn.routing_ollama_only THEN <<"ollama">>
    ELSE IF conn.routing_cloud_only /\ conn.routing_prefer = "ollama" THEN <<"openrouter">>
    ELSE IF conn.routing_cloud_only THEN <<conn.routing_prefer>>
    ELSE IF conn.routing_fallback = None \/ conn.routing_fallback = conn.routing_prefer
    THEN <<conn.routing_prefer>>
    ELSE <<conn.routing_prefer, conn.routing_fallback>>

\* C11: for every combination of the flags of a connector that has a
\* preferred provider, the order is [ollama] when ollama_only is set, cloud_only
\* set or not; with cloud_only, [prefer] for a cloud prefer and [openrouter]
\* for prefer = ollama; otherwise prefer followed by the fallback, the
\* fallback left out when it is absent or equal to prefer.
C11_ProviderOrder ==
    (/\ pure_call.op = "_get_provider_order"
     /\ pure_call.connector.routing_prefer # None
     /\ pure_out # <<>>)
        => pure_out[1] = ExpectedOrder(pure_call.connector)

C11_Witness ==
    /\ pure_call.op = "_get_provider_order"
    /\ pure_call.connector.routing_ollama_only /\ pure_call.connector.routing_cloud_only
    /\ pure_call.connector.routing_prefer = "openrouter"
    /\ pure_out = << <<"ollama">> >>

\* m is not blocked, and the allow list holds "*" or m
AllowedByPolicy(conn, model) ==
    /\ model \notin conn.blocked_models
    /\ ("*" \in conn.allowed_models \/ model \in conn.allowed_models)

\* C12: is_model_allowed(connector, m) is true exactly when m is not in
\* blocked_models and allowed_models contains "*" or m.
C12_AllowedExactly ==
    (pure_call.op = "is_model_allowed" /\ pure_out # <<>>)
        => pure_out[1] = AllowedByPolicy(pure_call.connector, pure_call.model)

\* The same, for the connectors whose allowed_models is not the empty list
AllowedExactlyNonEmpty ==
    (pure_call.op = "is_model_allowed" /\ pure_call.connector.allowed_models # {})
        => C12_AllowedExactly

====
